---------------------------- MODULE Spec2Model ----------------------------
(***************************************************************************)
(* A model of the lumos brightness calculators.                            *)
(*                                                                         *)
(* numpy float64 values are modelled as fixed-point integers: a            *)
(* dimensionless value v (a cosine, a unit-vector component, an angle in   *)
(* radians or in degrees, a BRDF value) is the integer S*v, rounded to the *)
(* nearest; a length is an integer number of kilometres.  The IEEE value   *)
(* NaN is the distinguished integer NaN: every arithmetic helper           *)
(* propagates it and every comparison with it is false, as in numpy.       *)
(***************************************************************************)
EXTENDS Integers, Sequences, FiniteSets, TLC

VARIABLES sat_surfaces, op, args, out

vars == <<sat_surfaces, op, args, out>>

-----------------------------------------------------------------------------
(* Fixed-point float64 arithmetic                                          *)

S == 1000

NaN == 2000000000

PI == 3142

HALF_PI == PI \div 2

IsNaN(x) == x = NaN

Abs(x) == IF x < 0 THEN -x ELSE x

Sign(x) == IF x > 0 THEN 1 ELSE IF x < 0 THEN -1 ELSE 0

\* Python evaluates a statement where it stands: the value v of an
\* assignment is computed before the statements after it
Strict(v, rest) == CASE v = v -> rest

\* a / b on integers, rounded to the nearest (b # 0)
Quo(a, b) == Sign(a) * Sign(b) * ((Abs(a) + Abs(b) \div 2) \div Abs(b))

FAdd(a, b) == CASE a = NaN -> NaN [] b = NaN -> NaN [] OTHER -> a + b

FSub(a, b) == CASE a = NaN -> NaN [] b = NaN -> NaN [] OTHER -> a - b

FNeg(a) == CASE a = NaN -> NaN [] OTHER -> -a

\* product of two fixed-point values, or of a length and a fixed-point
\* value: a * b / S, formed without leaving 32 bits
FMul(a, b) ==
    CASE a = NaN -> NaN
      [] b = NaN -> NaN
      [] OTHER ->
         LET big   == IF Abs(a) >= Abs(b) THEN a ELSE b
             small == IF Abs(a) >= Abs(b) THEN b ELSE a
             q == Abs(big) \div S
             r == Abs(big) % S
         IN  Sign(big) * (small * q + Quo(small * r, S))

\* x ** 2
Sq(x) == FMul(x, x)

\* quotient of two fixed-point values (or of two lengths), a fixed-point
\* value; numpy gives nan for 0/0.  A non-zero value over zero is numpy's
\* inf: no run of the model forms one.  A numerator too large to be scaled
\* is divided by the scaled-down denominator instead.
FDiv(a, b) ==
    CASE a = NaN -> NaN
      [] b = NaN -> NaN
      [] b = 0 -> NaN
      [] Abs(a) <= 2000000 -> Quo(a * S, b)
      [] Abs(b) < S -> Quo(a, Sign(b)) * S
      [] OTHER -> Quo(a, Quo(b, S))

\* comparisons: false when either side is NaN
FGt(a, b) == a # NaN /\ b # NaN /\ a > b

FLt(a, b) == a # NaN /\ b # NaN /\ a < b

\* np.clip(x, 0, None)
Clip0(x) == CASE x = NaN -> NaN [] x < 0 -> 0 [] OTHER -> x

\* np.where(cond, 0, x) with cond the comparison d < 0
WhereNeg(d, x) == IF FLt(d, 0) THEN 0 ELSE x

\* the largest root base + d * step, d in 0..35, whose square is at most n
\* (46340 is the largest root of a number below 2^31)
ISqrtFrom(n, base, step) ==
    base + step * (CHOOSE d \in 0..35 :
                      /\ base + d * step <= 46340
                      /\ (base + d * step) * (base + d * step) <= n
                      /\ \/ d = 35
                         \/ base + (d + 1) * step > 46340
                         \/ (base + (d + 1) * step) * (base + (d + 1) * step) > n)

\* floor of the square root of a non-negative integer below 2^31, found
\* digit by digit in base 36
ISqrt(n) == ISqrtFrom(n, ISqrtFrom(n, ISqrtFrom(n, 0, 1296), 36), 1)

\* np.sqrt of a fixed-point value, a fixed-point value
FSqrt(v) == CASE v = NaN -> NaN [] v < 0 -> NaN [] OTHER -> ISqrt(v * S)

\* np.sqrt of a squared length (km^2), a length (km)
LSqrt(v) == CASE v = NaN -> NaN [] v < 0 -> NaN [] OTHER -> ISqrt(v)

\* sin on [0, pi] (Bhaskara's rational approximation, error below 0.002)
SinArc(r) ==
    LET p == r * (PI - r)
    IN  Quo(16 * p, Quo(5 * PI * PI - 4 * p, S))

\* np.sin of a fixed-point angle in radians
Sin(x) ==
    IF IsNaN(x) THEN NaN
    ELSE LET r == x % (2 * PI)
         IN  IF r <= PI THEN SinArc(r) ELSE -SinArc(r - PI)

\* np.cos of a fixed-point angle in radians
Cos(x) == IF IsNaN(x) THEN NaN ELSE Sin(x + HALF_PI)

\* np.tan; at the poles of the tangent float64 gives a huge finite value,
\* here the largest value whose square is representable
Tan(x) ==
    IF IsNaN(x) THEN NaN
    ELSE LET s == Sin(x)
             c == Cos(x)
         IN  IF c = 0 THEN Sign(s) * 30000
             ELSE LET t == Quo(s * S, c)
                  IN  IF Abs(t) > 30000 THEN Sign(t) * 30000 ELSE t

\* the largest angle base + d * step, d in 0..14, below pi whose cosine
\* is still above c
ArcCosFrom(c, base, step) ==
    base + step * (CHOOSE d \in 0..14 :
                      /\ base + d * step < PI
                      /\ Cos(base + d * step) > c
                      /\ \/ d = 14
                         \/ base + (d + 1) * step >= PI
                         \/ Cos(base + (d + 1) * step) <= c)

\* np.arccos: the angle in [0, pi] with the given cosine; nan (with a
\* RuntimeWarning, no exception) outside [-1, 1]
ArcCos(c) ==
    IF IsNaN(c) \/ c > S \/ c < -S THEN NaN
    ELSE IF c = -S THEN PI
    ELSE IF c = S THEN 0
    ELSE 1 + ArcCosFrom(c, ArcCosFrom(c, ArcCosFrom(c, 0, 225), 15), 1)

\* np.arcsin
ArcSin(c) ==
    IF IsNaN(c) \/ c > S \/ c < -S THEN NaN
    ELSE HALF_PI - ArcCos(c)

\* np.arctan2(y, x)
ArcTan2(y, x) ==
    IF IsNaN(x) \/ IsNaN(y) THEN NaN
    ELSE IF x = 0 /\ y = 0 THEN 0
    ELSE LET r == ISqrt(x * x + y * y)
             a == ArcCos(IF Abs(Quo(x * S, r)) > S THEN Sign(x) * S ELSE Quo(x * S, r))
         IN  IF y < 0 THEN -a ELSE a

\* np.deg2rad, np.rad2deg
Deg2Rad(d) == IF IsNaN(d) THEN NaN ELSE Quo(d * PI, 180 * S)

Rad2Deg(r) == IF IsNaN(r) THEN NaN ELSE Quo(r * 180 * S, PI)

\* the product of an integer constant and a value
Times(k, x) == CASE x = NaN -> NaN [] OTHER -> k * x

\* the product of two lengths, a squared length
LMul(a, b) == CASE a = NaN -> NaN [] b = NaN -> NaN [] OTHER -> a * b

Dot3(u, v) ==
    FAdd(FAdd(FMul(u[1], v[1]), FMul(u[2], v[2])), FMul(u[3], v[3]))

\* x ** k for a natural exponent k
RECURSIVE FPow(_, _)
FPow(x, k) == IF k = 0 THEN S ELSE FMul(x, FPow(x, k - 1))

\* np.exp of a fixed-point value: the Taylor polynomial of degree 4 on
\* [-1, 1], (exp(t/2))^2 below and 1/exp(-t) above
RECURSIVE Exp(_)
Exp(t) ==
    IF IsNaN(t) THEN NaN
    ELSE IF t > S THEN FDiv(S, Exp(-t))
    ELSE IF t < -S THEN Sq(Exp(Quo(t, 2)))
    ELSE LET t2 == FMul(t, t)
             t3 == FMul(t2, t)
             t4 == FMul(t3, t)
         IN  S + t + Quo(t2, 2) + Quo(t3, 6) + Quo(t4, 24)

\* natural logarithm of a fixed-point value y >= 1
RECURSIVE Ln(_)
Ln(y) ==
    IF IsNaN(y) \/ y <= 0 THEN NaN
    ELSE IF y > 2 * S THEN 693 + Ln(Quo(y, 2))
    ELSE LET z  == FDiv(y - S, y + S)
             z3 == FPow(z, 3)
             z5 == FPow(z, 5)
         IN  2 * (z + Quo(z3, 3) + Quo(z5, 5))

\* np.log10
Log10(y) == FDiv(Ln(y), 2303)

\* 10 ** t
Pow10(t) == Exp(FMul(t, 2303))

-----------------------------------------------------------------------------
(* brdf/library.py: the catalog of BRDF models.  A model is a record       *)
(* holding the parameters its factory closes over; BRDF(m, i, n, o) is the *)
(* call m(incident_vector, normal_vector, outgoing_vector) on one element  *)
(* of the (broadcast) arrays.                                              *)

\* the reflection of the incident vector about the normal
Reflect(i, n) ==
    LET dot == Times(2, Dot3(i, n))
    IN  << FSub(FMul(dot, n[1]), i[1]),
           FSub(FMul(dot, n[2]), i[2]),
           FSub(FMul(dot, n[3]), i[3]) >>

\* v - (v . n) n
Tangential(v, n) ==
    LET dot == Dot3(v, n)
    IN  << FSub(v[1], FMul(dot, n[1])),
           FSub(v[2], FMul(dot, n[2])),
           FSub(v[3], FMul(dot, n[3])) >>

Norm3(u, v) ==
    FSqrt(FAdd(FAdd(FMul(FSub(u[1], v[1]), FSub(u[1], v[1])),
                    FMul(FSub(u[2], v[2]), FSub(u[2], v[2]))),
               FMul(FSub(u[3], v[3]), FSub(u[3], v[3]))))

LAMBERTIAN_BRDF(albedo, i, n, o) ==
    LET brdf1 == WhereNeg(Dot3(i, n), FDiv(albedo, PI))
        brdf2 == WhereNeg(Dot3(o, n), FDiv(albedo, PI))
    IN  brdf2

\* A / (B + x ** g), x the distance of the tangential components beta, beta0
AbgValue(A, B, g, beta, beta0) ==
    Strict(<< beta, beta0 >>, FDiv(A, FAdd(B, FPow(Norm3(beta, beta0), g))))

AbgTangents(A, B, g, r, n, o) ==
    Strict(r, AbgValue(A, B, g, Tangential(o, n), Tangential(r, n)))

ABG_BRDF(A, B, g, i, n, o) ==
    WhereNeg(Dot3(o, n),
             WhereNeg(Dot3(i, n), AbgTangents(A, B, g, Reflect(i, n), n, o)))

\* A * exp((r . o - 1) / sigma)
GaussianValue(A, sigma, dot) ==
    Strict(dot, FMul(A, Exp(FDiv(FSub(dot, S), sigma))))

GAUSSIAN_BRDF(A, sigma, i, n, o) ==
    WhereNeg(Dot3(o, n),
             WhereNeg(Dot3(i, n), GaussianValue(A, sigma, Dot3(Reflect(i, n), o))))

\* Kd / pi + Ks (n + 2) / (2 pi) * dot ** n, dot the clipped r . o
PhongValue(Kd, Ks, n_exp, dot) ==
    Strict(dot, FAdd(FDiv(Kd, PI),
                     FMul(FDiv(Ks * (n_exp + 2), 2 * PI), FPow(dot, n_exp))))

\* np.clip(dot, 0, 1)
Clip01(dot0) == CASE dot0 = NaN -> NaN [] dot0 < 0 -> 0 [] dot0 > S -> S [] OTHER -> dot0

PHONG_BRDF(Kd, Ks, n_exp, i, n, o) ==
    WhereNeg(Dot3(o, n),
             WhereNeg(Dot3(i, n),
                      PhongValue(Kd, Ks, n_exp, Clip01(Dot3(Reflect(i, n), o)))))

\* sum over i in range(m) of B[k, i] * D ** i
RECURSIVE BinomialTerm1(_, _, _)
BinomialTerm1(Bk, D, m) ==
    IF m = 0 THEN 0
    ELSE FAdd(BinomialTerm1(Bk, D, m - 1), FMul(Bk[m], FPow(D, m - 1)))

\* sum over i in range(j) of C[k, i] * log10(1 + d ** (i + l1) * D ** 2)
RECURSIVE BinomialTerm2(_, _, _, _, _)
BinomialTerm2(Ck, D, d, l1, j) ==
    IF j = 0 THEN 0
    ELSE FAdd(BinomialTerm2(Ck, D, d, l1, j - 1),
              FMul(Ck[j], Log10(FAdd(S, FMul(FPow(d, j - 1 + l1), FPow(D, 2))))))

\* (term_1 + 0.5 * term_2) * V ** k for one k (n = k + 1)
BinomialOrder(B, C, d, l1, D, V, n) ==
    FMul(FAdd(BinomialTerm1(B[n], D, Len(B[n])),
              FMul(S \div 2, BinomialTerm2(C[n], D, d, l1, Len(C[n])))),
         FPow(V, n - 1))

\* sum over k in range(n) of (term_1 + 0.5 * term_2) * V ** k
RECURSIVE BinomialLog(_, _, _, _, _, _, _)
BinomialLog(B, C, d, l1, D, V, n) ==
    IF n = 0 THEN 0
    ELSE FAdd(BinomialLog(B, C, d, l1, D, V, n - 1),
              BinomialOrder(B, C, d, l1, D, V, n))

\* 10 ** log_brdf, given D = |rho - rho0| and V = rho . rho0
BinomialValue(B, C, d, l1, D, V) ==
    Strict(<< D, V >>, Pow10(BinomialLog(B, C, d, l1, D, V, Len(B))))

BinomialTangents(B, C, d, l1, rho, rho0) ==
    Strict(<< rho, rho0 >>,
           BinomialValue(B, C, d, l1, Norm3(rho, rho0), Dot3(rho, rho0)))

BinomialReflected(B, C, d, l1, r, n, o) ==
    Strict(r, BinomialTangents(B, C, d, l1, Tangential(o, n), Tangential(r, n)))

BINOMIAL_BRDF(B, C, d, l1, i, n, o) ==
    WhereNeg(Dot3(o, n),
             WhereNeg(Dot3(i, n),
                      BinomialReflected(B, C, d, l1, Reflect(i, n), n, o)))

\* the call of a BRDF function made by one of the factories
BRDF(m, i, n, o) ==
    CASE m.kind = "LAMBERTIAN" -> LAMBERTIAN_BRDF(m.albedo, i, n, o)
      [] m.kind = "ABG"        -> ABG_BRDF(m.A, m.B, m.g, i, n, o)
      [] m.kind = "GAUSSIAN"   -> GAUSSIAN_BRDF(m.A, m.sigma, i, n, o)
      [] m.kind = "PHONG"      -> PHONG_BRDF(m.Kd, m.Ks, m.n, i, n, o)
      [] m.kind = "BINOMIAL"   -> BINOMIAL_BRDF(m.B, m.C, m.d, m.l1, i, n, o)

-----------------------------------------------------------------------------
(* conversions.py                                                          *)

\* altitude and azimuth in degrees
altaz_to_unit(altitude, azimuth) ==
    LET phi   == Deg2Rad(FSub(90 * S, altitude))
        theta == Deg2Rad(azimuth)
    IN  << FMul(Sin(phi), Cos(theta)), FMul(Sin(phi), Sin(theta)), Cos(phi) >>

unit_to_spherical(x, y, z) ==
    LET phi   == ArcCos(z)
        theta == ArcTan2(y, x)
    IN  << Rad2Deg(phi), Rad2Deg(theta) >>

spherical_to_unit(phi, theta) ==
    << FMul(Sin(phi), Cos(theta)), FMul(Sin(phi), Sin(theta)), Cos(phi) >>

-----------------------------------------------------------------------------
(* constants.py (lengths in kilometres)                                    *)

EARTH_RADIUS == 6378

SUN_INTENSITY == 1360

-----------------------------------------------------------------------------
(* calculators/brightness_frame.py                                         *)

\* element k (from 0) of np.linspace(a, b, n)
Linspace(a, b, n, k) ==
    IF IsNaN(a) \/ IsNaN(b) THEN NaN
    ELSE IF k = n - 1 THEN b
    ELSE a + Quo(k * (b - a), n - 1)

\* z**3 / R**2, a length, formed as (z/R)**2 * z
CubeOverRSq(z) == FMul(z, Sq(FDiv(z, EARTH_RADIUS)))

\* nz = 1 / sqrt(1 + tan(on)**2 + tan(off)**2)
PanelNz(tan_on, tan_off) ==
    FDiv(S, FSqrt(FAdd(FAdd(S, Sq(tan_on)), Sq(tan_off))))

\* nx, ny and the visibility of a candidate panel from its nz
PanelOf(phi, theta, tan_off, tan_on, nz, max_angle) ==
    [phi |-> phi, theta |-> theta,
     nx |-> FMul(tan_off, nz), ny |-> FMul(tan_on, nz), nz |-> nz,
     visible_to_sat |-> FLt(ArcCos(nz), max_angle)]

\* the candidate panel of the mesh with off-plane angle phi and on-plane
\* angle theta: its normal, and whether it is visible to the satellite
PanelNormal(phi, theta, max_angle) ==
    PanelOf(phi, theta, Tan(phi), Tan(theta), PanelNz(Tan(theta), Tan(phi)), max_angle)

\* the partial derivatives of the panel position; tx = nx / nz, ty = ny / nz
Jacobian(z, z3, cp2, ct2, tx, ty, tan_theta) ==
    [dx_dr     |-> FDiv(FMul(z, tx), EARTH_RADIUS),
     dx_dphi   |-> FDiv(FDiv(z3, cp2), ct2),
     dx_dtheta |-> FNeg(FDiv(FMul(z3, FMul(ty, tx)), ct2)),
     dy_dr     |-> FDiv(FMul(z, tan_theta), EARTH_RADIUS),
     dy_dphi   |-> FNeg(FDiv(FMul(z3, FMul(ty, tx)), cp2)),
     dy_dtheta |-> FDiv(FDiv(z3, cp2), ct2),
     dz_dr     |-> FDiv(z, EARTH_RADIUS),
     dz_dphi   |-> FNeg(FDiv(FMul(z3, tx), cp2)),
     dz_dtheta |-> FNeg(FDiv(FMul(z3, ty), ct2))]

\* the Jacobian determinant, expanded along the d/dr column
Determinant(J) ==
    IF \E f \in DOMAIN J : IsNaN(J[f]) THEN NaN
    ELSE FMul(J.dy_dphi * J.dz_dtheta - J.dy_dtheta * J.dz_dphi, J.dx_dr)
         - FMul(J.dx_dphi * J.dz_dtheta - J.dx_dtheta * J.dz_dphi, J.dy_dr)
         + FMul(J.dx_dphi * J.dy_dtheta - J.dx_dtheta * J.dy_dphi, J.dz_dr)

\* position and area (Jacobian determinant) of a visible panel
PanelArea(p, d_phi, d_theta) ==
    [x |-> FMul(EARTH_RADIUS, p.nx), y |-> FMul(EARTH_RADIUS, p.ny),
     z |-> FMul(EARTH_RADIUS, p.nz), nx |-> p.nx, ny |-> p.ny, nz |-> p.nz,
     area |-> FMul(FMul(Determinant(
                            Jacobian(FMul(EARTH_RADIUS, p.nz),
                                     CubeOverRSq(FMul(EARTH_RADIUS, p.nz)),
                                     Sq(Cos(p.phi)), Sq(Cos(p.theta)),
                                     FDiv(p.nx, p.nz), FDiv(p.ny, p.nz), Tan(p.theta))),
                        d_phi),
                   d_theta)]

\* abs(angles[1] - angles[0])
Spacing(a0, a1) == IF IsNaN(a0) \/ IsNaN(a1) THEN NaN ELSE Abs(a1 - a0)

\* the flattened meshgrid of candidate panels
MeshGrid(angle_past_terminator, max_angle, density) ==
    [j \in 1..(density * density) |->
        PanelNormal(Linspace(FNeg(max_angle), max_angle, density, (j - 1) \div density),
                    Linspace(angle_past_terminator, max_angle, density, (j - 1) % density),
                    max_angle)]

\* a mask that keeps every candidate panel
VisibleAlways(p) == TRUE

\* the mask of line 45
VisibleToSat(p) == p.visible_to_sat

PanelAreas(kept, d_phi, d_theta) ==
    Strict(<< kept, d_phi, d_theta >>,
           [j \in 1..Len(kept) |-> PanelArea(kept[j], d_phi, d_theta)])

\* the panels of the mesh within max_angle of the sub-satellite point
PanelsWithin(angle_past_terminator, max_angle, density) ==
    Strict(max_angle,
    PanelAreas(SelectSeq(MeshGrid(angle_past_terminator, max_angle, density), VisibleToSat),
               Spacing(Linspace(FNeg(max_angle), max_angle, density, 0),
                       Linspace(FNeg(max_angle), max_angle, density, 1)),
               Spacing(Linspace(angle_past_terminator, max_angle, density, 0),
                       Linspace(angle_past_terminator, max_angle, density, 1))))

\* get_earthshine_panels(sat_z, angle_past_terminator, density): the
\* sequence of the panels (x, y, z, nx, ny, nz, area), in the order of the
\* flattened meshgrid
get_earthshine_panels(sat_z, angle_past_terminator, density) ==
    PanelsWithin(angle_past_terminator, ArcCos(FDiv(EARTH_RADIUS, sat_z)), density)

\* Surface.normal resolved at an angle past the terminator: a fixed vector,
\* or the call of a function of the angle
SurfaceNormal(normal, angle_past_terminator) ==
    IF normal.callable
    THEN CASE normal.f = "toward_sun" ->
                 << 0, Cos(angle_past_terminator), FNeg(Sin(angle_past_terminator)) >>
    ELSE normal.v

Event(e, k) == [ev |-> e, k |-> k]

\* x / d**2 for a squared distance d2 in km^2, in units of 10^-9 W/m^2
OverDistSq(x, d2) ==
    IF IsNaN(x) \/ IsNaN(d2) \/ d2 = 0 THEN NaN
    ELSE IF d2 < S THEN x
    ELSE Quo(x, Quo(d2, S))

\* np.sum of a sequence
RECURSIVE SumRange(_, _, _)
SumRange(q, lo, hi) ==
    IF lo > hi THEN 0
    ELSE IF lo = hi THEN q[lo]
    ELSE FAdd(SumRange(q, lo, (lo + hi) \div 2),
              SumRange(q, (lo + hi) \div 2 + 1, hi))

SumSeq(q) == SumRange(q, 1, Len(q))

\* vector_2_sun
SunVector(angle_past_terminator) ==
    << 0, Cos(angle_past_terminator), FNeg(Sin(angle_past_terminator)) >>

\* dist_panels_2_sat of one panel
DistPanelToSat(p, sat_z) ==
    LSqrt(FAdd(FAdd(LMul(p.x, p.x), LMul(p.y, p.y)),
               LMul(FSub(sat_z, p.z), FSub(sat_z, p.z))))

\* the unit vector from one panel to the satellite
PanelSat(p, sat_z, dist) ==
    << FDiv(FNeg(p.x), dist), FDiv(FNeg(p.y), dist), FDiv(FSub(sat_z, p.z), dist) >>

\* panel_normalizations of one panel: not clipped
PanelNormalization(p, vector_2_sun) ==
    FAdd(FMul(p.ny, vector_2_sun[2]), FMul(p.nz, vector_2_sun[3]))

\* one panel with its distance to the satellite, its unit vector to the
\* satellite, its illumination weight and its earth BRDF value
MeshPanel(p, vector_2_sun, earth_brdf, dist, panel_sat) ==
    [area |-> p.area, dist2 |-> LMul(dist, dist), panel_sat |-> panel_sat,
     normalization |-> PanelNormalization(p, vector_2_sun),
     brdf |-> BRDF(earth_brdf, vector_2_sun, << p.nx, p.ny, p.nz >>, panel_sat)]

MeshOf(panels, sat_z, vector_2_sun, earth_brdf) ==
    Strict(<< panels, vector_2_sun >>,
           [j \in 1..Len(panels) |->
               MeshPanel(panels[j], vector_2_sun, earth_brdf,
                         DistPanelToSat(panels[j], sat_z),
                         PanelSat(panels[j], sat_z, DistPanelToSat(panels[j], sat_z)))])

\* the earthshine mesh of one calculation (lines 134-150)
EarthshineMesh(sat_z, angle_past_terminator, density, earth_brdf) ==
    MeshOf(get_earthshine_panels(sat_z, angle_past_terminator, density), sat_z,
           SunVector(angle_past_terminator), earth_brdf)

\* surface_normalization without the clip of line 165
SurfaceNormalizationUnclipped(surface_normal, vector_2_sun) ==
    FAdd(FMul(surface_normal[2], vector_2_sun[2]),
         FMul(surface_normal[3], vector_2_sun[3]))

\* surface_normalization: the cosine of the sun's incidence, clipped at 0
SurfaceNormalization(surface_normal, vector_2_sun) ==
    Clip0(FAdd(FMul(surface_normal[2], vector_2_sun[2]),
               FMul(surface_normal[3], vector_2_sun[3])))

\* observer_normalization: the cosine toward the observer, clipped at 0
ObserverNormalization(surface_normal, sat_obs) == Clip0(Dot3(surface_normal, sat_obs))

\* surface_normalizations of one panel: the clipped cosine, squared
PanelSurfaceNormalization(surface_normal, panel_sat) ==
    Sq(Clip0(Dot3(surface_normal, panel_sat)))

\* the direct term of a surface (lines 171-176)
SunContribution(surface, vector_2_sun, surface_normal, sat_obs, include_sun) ==
    IF include_sun
    THEN FMul(FMul(BRDF(surface.brdf, vector_2_sun, surface_normal, sat_obs),
                   SurfaceNormalization(surface_normal, vector_2_sun)),
              ObserverNormalization(surface_normal, sat_obs))
    ELSE 0

\* the summand of one panel in the earthshine term of a surface
PanelTerm(m, surface, surface_normal, sat_obs) ==
    FDiv(FMul(m.area,
              FMul(FMul(FMul(m.brdf,
                             BRDF(surface.brdf,
                                  << FNeg(m.panel_sat[1]), FNeg(m.panel_sat[2]),
                                     FNeg(m.panel_sat[3]) >>,
                                  surface_normal, sat_obs)),
                        m.normalization),
                   PanelSurfaceNormalization(surface_normal, m.panel_sat))),
         m.dist2)

\* the earthshine term of a surface (lines 178-191)
EarthContribution(surface, surface_normal, sat_obs, include_earthshine, mesh) ==
    IF include_earthshine
    THEN SumSeq([j \in 1..Len(mesh) |-> PanelTerm(mesh[j], surface, surface_normal, sat_obs)])
    ELSE 0

\* the term one surface adds to the intensity, given its resolved normal
SurfaceTermAt(surface, vector_2_sun, surface_normal, sat_obs, dist2_sat_2_obs, include_sun, include_earthshine, mesh) ==
    Strict(<< vector_2_sun, surface_normal >>,
    OverDistSq(Times(SUN_INTENSITY,
                     FMul(surface.area,
                          FAdd(SunContribution(surface, vector_2_sun, surface_normal,
                                               sat_obs, include_sun),
                               EarthContribution(surface, surface_normal, sat_obs,
                                                 include_earthshine, mesh)))),
               dist2_sat_2_obs))

\* the body of the loop had a callable normal been resolved at the
\* terminator instead of the angle of the calculation
SurfaceTermAtTerminator(surface, angle_past_terminator, sat_obs, dist2_sat_2_obs, include_sun, include_earthshine, mesh) ==
    SurfaceTermAt(surface, SunVector(angle_past_terminator),
                  SurfaceNormal(surface.normal, 0), sat_obs,
                  dist2_sat_2_obs, include_sun, include_earthshine, mesh)

\* the body of the loop over sat_surfaces for one surface (lines 156-191)
SurfaceTerm(surface, angle_past_terminator, sat_obs, dist2_sat_2_obs, include_sun, include_earthshine, mesh) ==
    SurfaceTermAt(surface, SunVector(angle_past_terminator),
                  SurfaceNormal(surface.normal, angle_past_terminator), sat_obs,
                  dist2_sat_2_obs, include_sun, include_earthshine, mesh)

\* the calls of an iteration had the earth BRDF been evaluated inside the
\* loop, once for each surface
EventsWithEarthBrdf(surface, k, include_sun, include_earthshine) ==
    (IF surface.normal.callable THEN << Event("normal", k) >> ELSE <<>>)
    \o (IF include_sun THEN << Event("brdf_sun", k) >> ELSE <<>>)
    \o (IF include_earthshine
        THEN << Event("earth_brdf", k), Event("brdf_earth", k) >>
        ELSE <<>>)

\* the calls one surface's iteration makes, in order
SurfaceEvents(surface, k, include_sun, include_earthshine) ==
    (IF surface.normal.callable THEN << Event("normal", k) >> ELSE <<>>)
    \o (IF include_sun THEN << Event("brdf_sun", k) >> ELSE <<>>)
    \o (IF include_earthshine THEN << Event("brdf_earth", k) >> ELSE <<>>)

\* the loop over sat_surfaces from surface k on, with the intensity
\* accumulated and the calls made so far
RECURSIVE SurfaceLoop(_, _, _, _, _, _, _, _, _, _)
SurfaceLoop(surfaces, k, intensity, trace, angle_past_terminator, sat_obs, dist2, include_sun, include_earthshine, mesh) ==
    IF k > Len(surfaces) THEN [value |-> intensity, trace |-> trace]
    ELSE Strict(<< intensity, trace >>,
         SurfaceLoop(surfaces, k + 1,
                     FAdd(intensity,
                          SurfaceTerm(surfaces[k], angle_past_terminator, sat_obs, dist2,
                                      include_sun, include_earthshine, mesh)),
                     trace \o SurfaceEvents(surfaces[k], k, include_sun, include_earthshine),
                     angle_past_terminator, sat_obs, dist2, include_sun,
                     include_earthshine, mesh))

Returned(v, t) == [status |-> "returned", value |-> v, trace |-> t]

Raised(e, t) == [status |-> "raised", value |-> e, trace |-> t]

\* horizon_angle
HorizonAngle(sat_height) ==
    ArcCos(FDiv(EARTH_RADIUS, FAdd(EARTH_RADIUS, sat_height)))

\* the test of line 110 had it compared the angle with the horizon angle in
\* degrees
InShadowDegrees(angle_past_terminator, horizon_angle) ==
    FGt(angle_past_terminator, Rad2Deg(horizon_angle))

\* the test of line 110 had it been written with >=
InShadowInclusive(angle_past_terminator, horizon_angle) ==
    angle_past_terminator # NaN /\ horizon_angle # NaN
        /\ angle_past_terminator >= horizon_angle

\* the test of line 110: inside the earth's shadow
InShadow(angle_past_terminator, horizon_angle) ==
    FGt(angle_past_terminator, horizon_angle)

\* the test of line 116 without the margin of one degree
NotVisibleNoMargin(observer_z, horizon_angle) ==
    FGt(ArcCos(FDiv(observer_z, EARTH_RADIUS)), horizon_angle)

\* the test of line 116: not visible to the observer
NotVisible(observer_z, horizon_angle) ==
    FGt(ArcCos(FDiv(observer_z, EARTH_RADIUS)), FAdd(horizon_angle, Deg2Rad(S)))

\* dist_sat_2_obs
DistSatToObs(observer_position, sat_z) ==
    LSqrt(FAdd(FAdd(LMul(observer_position[1], observer_position[1]),
                    LMul(observer_position[2], observer_position[2])),
               LMul(FSub(observer_position[3], sat_z), FSub(observer_position[3], sat_z))))

\* the unit vector (sat_obs_x, sat_obs_y, sat_obs_z)
SatObs(observer_position, sat_z, dist_sat_2_obs) ==
    << FDiv(observer_position[1], dist_sat_2_obs),
       FDiv(observer_position[2], dist_sat_2_obs),
       FDiv(FSub(observer_position[3], sat_z), dist_sat_2_obs) >>

\* the calls before the loop had the mesh been generated whether or not the
\* earthshine is included
SetupWithMesh(include_earthshine) ==
    << Event("div_obs", 0), Event("get_earthshine_panels", 0) >>
    \o (IF include_earthshine THEN << Event("earth_brdf", 0) >> ELSE <<>>)

\* the calls made before the loop over the surfaces
SetupEvents(include_earthshine) ==
    << Event("div_obs", 0) >>
    \o (IF include_earthshine
        THEN << Event("get_earthshine_panels", 0), Event("earth_brdf", 0) >>
        ELSE <<>>)

LoopResult(loop, include_earthshine) ==
    Returned(loop.value, SetupEvents(include_earthshine) \o loop.trace)

\* lines 152-193: the loop over the surfaces and the return
Accumulate(surfaces, angle_past_terminator, sat_obs, dist2_sat_2_obs, include_sun, include_earthshine, mesh) ==
    Strict(<< sat_obs, dist2_sat_2_obs, mesh >>,
           LoopResult(SurfaceLoop(surfaces, 1, 0, <<>>, angle_past_terminator, sat_obs,
                                  dist2_sat_2_obs, include_sun, include_earthshine, mesh),
                      include_earthshine))

\* lines 121-193: the calculation for a lit satellite above the observer's
\* horizon.  A missing earth_brdf is called as None once the mesh is built.
Proceed(surfaces, sat_z, angle_past_terminator, observer_position, dist_sat_2_obs, include_sun, include_earthshine, earth_panel_density, earth_brdf) ==
    IF include_earthshine /\ earth_brdf.kind = "None"
    THEN Raised("TypeError", SetupEvents(include_earthshine))
    ELSE Strict(dist_sat_2_obs,
         Accumulate(surfaces, angle_past_terminator,
                    SatObs(observer_position, sat_z, dist_sat_2_obs),
                    LMul(dist_sat_2_obs, dist_sat_2_obs), include_sun, include_earthshine,
                    IF include_earthshine
                    THEN EarthshineMesh(sat_z, angle_past_terminator,
                                        earth_panel_density, earth_brdf)
                    ELSE <<>>))

\* the calculator had it treated a satellite in the shadow or below the
\* horizon as an error
RaiseWhenDark(surfaces, sat_height, angle_past_terminator, observer_position, include_sun, include_earthshine, earth_panel_density, earth_brdf) ==
    IF InShadow(angle_past_terminator, HorizonAngle(sat_height))
    THEN Raised("ValueError", <<>>)
    ELSE IF NotVisible(observer_position[3], HorizonAngle(sat_height))
    THEN Raised("ValueError", <<>>)
    ELSE Proceed(surfaces, FAdd(sat_height, EARTH_RADIUS), angle_past_terminator,
                 observer_position,
                 DistSatToObs(observer_position, FAdd(sat_height, EARTH_RADIUS)),
                 include_sun, include_earthshine, earth_panel_density, earth_brdf)

\* calculate_intensity(sat_surfaces, sat_height, angle_past_terminator,
\*     observer_position, include_sun, include_earthshine,
\*     earth_panel_density, earth_brdf)
calculate_intensity(surfaces, sat_height, angle_past_terminator, observer_position, include_sun, include_earthshine, earth_panel_density, earth_brdf) ==
    IF InShadow(angle_past_terminator, HorizonAngle(sat_height))
    THEN Returned(0, <<>>)
    ELSE IF NotVisible(observer_position[3], HorizonAngle(sat_height))
    THEN Returned(0, <<>>)
    ELSE Proceed(surfaces, FAdd(sat_height, EARTH_RADIUS), angle_past_terminator,
                 observer_position,
                 DistSatToObs(observer_position, FAdd(sat_height, EARTH_RADIUS)),
                 include_sun, include_earthshine, earth_panel_density, earth_brdf)

-----------------------------------------------------------------------------
(* functions.py                                                            *)

\* the permanent in place of the determinant
perm_2(a11, a12, a21, a22) == FAdd(FMul(a11, a22), FMul(a21, a12))

det_2(a11, a12, a21, a22) == FSub(FMul(a11, a22), FMul(a21, a12))

det_3(a11, a12, a13, a21, a22, a23, a31, a32, a33) ==
    FAdd(FSub(FMul(a11, det_2(a22, a23, a32, a33)),
              FMul(a12, det_2(a21, a23, a31, a33))),
         FMul(a13, det_2(a21, a22, a31, a32)))

\* the adjugate scaled by c = 1 / det
Adjugate(c, a11, a12, a13, a21, a22, a23, a31, a32, a33) ==
    Strict(c,
    << FMul(c, det_2(a22, a23, a32, a33)), FMul(c, det_2(a13, a12, a33, a32)),
       FMul(c, det_2(a12, a13, a22, a23)),
       FMul(c, det_2(a23, a21, a33, a31)), FMul(c, det_2(a11, a13, a31, a33)),
       FMul(c, det_2(a13, a11, a23, a21)),
       FMul(c, det_2(a21, a22, a31, a32)), FMul(c, det_2(a12, a11, a32, a31)),
       FMul(c, det_2(a11, a12, a21, a22)) >>)

inv_3(a11, a12, a13, a21, a22, a23, a31, a32, a33) ==
    Adjugate(FDiv(S, det_3(a11, a12, a13, a21, a22, a23, a31, a32, a33)),
             a11, a12, a13, a21, a22, a23, a31, a32, a33)

-----------------------------------------------------------------------------
(* calculators/ground_frame.py                                             *)

\* np.sign
FSign(x) == IF IsNaN(x) THEN NaN ELSE S * Sign(x)

\* c * v for a scalar c and a vector v
Scale3(c, v) == << FMul(c, v[1]), FMul(c, v[2]), FMul(c, v[3]) >>

\* phi: the angle at the Earth's centre between the observer and the
\* satellite (line 39); sat is the unit vector to the satellite
Phi(sat, sat_height) ==
    FSub(ArcCos(sat[3]),
         ArcSin(FMul(FDiv(EARTH_RADIUS, FAdd(EARTH_RADIUS, sat_height)),
                     FSqrt(FAdd(Sq(sat[1]), Sq(sat[2]))))))

\* (Zx, Zy, Zz) (lines 42-44)
ZAxis(phi, theta) ==
    << FMul(Sin(phi), Cos(theta)), FMul(Sin(phi), Sin(theta)), Cos(phi) >>

\* beta = 1 / sqrt(1 - dot**2) (line 47)
Beta(dot) == FDiv(S, FSqrt(FSub(S, Sq(dot))))

\* alpha * Z + beta * sun (lines 50-52)
YUnflipped(alpha, beta, Z, sun) ==
    << FAdd(FMul(alpha, Z[1]), FMul(beta, sun[1])),
       FAdd(FMul(alpha, Z[2]), FMul(beta, sun[2])),
       FAdd(FMul(alpha, Z[3]), FMul(beta, sun[3])) >>

\* (Yx, Yy, Yz) flipped to the side of the sun (lines 54-55)
Flipped(Y0, sun) == Strict(Y0, Scale3(FSign(Dot3(Y0, sun)), Y0))

YFromBeta(Z, sun, dot, beta) ==
    Strict(<< dot, beta >>, Flipped(YUnflipped(FNeg(FMul(beta, dot)), beta, Z, sun), sun))

\* (Yx, Yy, Yz) (lines 46-55)
YAxis(Z, sun) == YFromBeta(Z, sun, Dot3(Z, sun), Beta(Dot3(Z, sun)))

\* (Xx, Xy, Xz) = Y x Z (lines 57-59)
XAxis(Y, Z) ==
    << FSub(FMul(Y[2], Z[3]), FMul(Z[2], Y[3])),
       FSub(FMul(Z[1], Y[3]), FMul(Y[1], Z[3])),
       FSub(FMul(Y[1], Z[2]), FMul(Z[1], Y[2])) >>

\* the matrix T of lines 61-65: the inverse of the matrix of columns X, Y, Z
Transform(X, Y, Z) ==
    Strict(X, inv_3(X[1], Y[1], Z[1], X[2], Y[2], Z[2], X[3], Y[3], Z[3]))

\* dist_to_sat (lines 67-69)
DistToSat(sat_height, phi) ==
    LSqrt(FSub(FAdd(LMul(EARTH_RADIUS, EARTH_RADIUS),
                    LMul(FAdd(EARTH_RADIUS, sat_height), FAdd(EARTH_RADIUS, sat_height))),
               FMul(Times(2 * EARTH_RADIUS, FAdd(EARTH_RADIUS, sat_height)), Cos(phi))))

\* obs_x, obs_y, obs_z and angle_past_terminator (lines 71-77)
ObserverCoords(T, sat, sun, sat_height, dist_to_sat) ==
    Strict(<< T, dist_to_sat >>,
    << FNeg(FMul(dist_to_sat, Dot3(<< T[1], T[2], T[3] >>, sat))),
       FNeg(FMul(dist_to_sat, Dot3(<< T[4], T[5], T[6] >>, sat))),
       FSub(FAdd(EARTH_RADIUS, sat_height),
            FMul(dist_to_sat, Dot3(<< T[7], T[8], T[9] >>, sat))),
       FNeg(ArcSin(Dot3(<< T[7], T[8], T[9] >>, sun))) >>)

CoordsFromAxes(Y, Z, sat, sun, sat_height, phi) ==
    Strict(Y, ObserverCoords(Transform(XAxis(Y, Z), Y, Z), sat, sun, sat_height,
                             DistToSat(sat_height, phi)))

CoordsFromZ(Z, sat, sun, sat_height, phi) ==
    Strict(Z, CoordsFromAxes(YAxis(Z, sun), Z, sat, sun, sat_height, phi))

CoordsFromPhi(sat, sun, sat_height, phi) ==
    Strict(phi, CoordsFromZ(ZAxis(phi, ArcTan2(sat[2], sat[1])), sat, sun, sat_height, phi))

CoordsFromUnit(sat, sun, sat_height) ==
    Strict(<< sat, sun >>, CoordsFromPhi(sat, sun, sat_height, Phi(sat, sat_height)))

\* get_brightness_coords(sat_alt, sat_az, sat_height, sun_alt, sun_az) for
\* one element of the arrays: << obs_x, obs_y, obs_z, angle_past_terminator >>
get_brightness_coords(sat_alt, sat_az, sat_height, sun_alt, sun_az) ==
    CoordsFromUnit(altaz_to_unit(sat_alt, sat_az), altaz_to_unit(sun_alt, sun_az),
                   sat_height)

\* An ndarray is a record of its shape, its dtype and its elements in
\* row-major order; a Python scalar is the 0-d array of its value.
RECURSIVE Size(_)
Size(shape) == IF shape = <<>> THEN 1 ELSE Head(shape) * Size(Tail(shape))

\* element i (from 1) of an array broadcast against n elements
Broadcast(a, i) == IF Len(a.data) = 1 THEN a.data[1] ELSE a.data[i]

Min(a, b) == IF a <= b THEN a ELSE b

\* intensity[i] = value: the value stored in an array of the given dtype.
\* An int64 array keeps the integer part of the value in W/m^2, which is 0
\* for every intensity below 1 W/m^2 (S * 10^9 units).
Stored(dtype, value) ==
    IF dtype = "float64" THEN value
    ELSE IF IsNaN(value) THEN NaN
    ELSE 0

\* the loop of lines 133-136 from element i to element n, with the
\* intensity array and the calls so far; results[i] is what the call of
\* calculate_intensity for element i gives: the intensity array at the
\* end, or the exception raised
RECURSIVE BatchLoopPartial(_, _, _, _, _, _, _)
\* the loop had it caught the exception of an element and returned the
\* intensity array filled so far
BatchLoopPartial(results, i, n, intensity, trace, dtype, size) ==
    CASE i > n -> Returned(intensity, trace)
      [] results[i].status = "raised" \/ i > size ->
            Returned(intensity,
                     trace \o << Event("calculate_intensity", i) >> \o results[i].trace)
      [] OTHER ->
            BatchLoopPartial(results, i + 1, n,
                             [intensity EXCEPT ![i] = Stored(dtype, results[i].value)],
                             trace \o << Event("calculate_intensity", i) >>
                                   \o results[i].trace,
                             dtype, size)

RECURSIVE BatchLoop(_, _, _, _, _, _, _)
BatchLoop(results, i, n, intensity, trace, dtype, size) ==
    CASE i > n -> Returned(intensity, trace)
      [] results[i].status = "raised" ->
            Raised(results[i].value,
                   trace \o << Event("calculate_intensity", i) >> \o results[i].trace)
      [] i > size ->
            Raised("IndexError",
                   trace \o << Event("calculate_intensity", i) >> \o results[i].trace)
      [] dtype = "int64" /\ IsNaN(results[i].value) ->
            Raised("ValueError",
                   trace \o << Event("calculate_intensity", i) >> \o results[i].trace)
      [] OTHER ->
            BatchLoop(results, i + 1, n,
                      [intensity EXCEPT ![i] = Stored(dtype, results[i].value)],
                      trace \o << Event("calculate_intensity", i) >> \o results[i].trace,
                      dtype, size)

\* the calls of line 135 had the angle past the terminator of an element been
\* kept for the call of the next one
IntensitiesCarried(surfaces, heights, coords, n, include_sun, include_earthshine, earth_panel_density, earth_brdf) ==
    [i \in 1..n |->
        calculate_intensity(surfaces, heights.data[i],
                            IF i > 1 THEN coords[i - 1][4] ELSE coords[i][4],
                            << coords[i][1], coords[i][2], coords[i][3] >>,
                            include_sun, include_earthshine, earth_panel_density,
                            earth_brdf)]

\* line 135: the call of calculate_intensity for each element of the loop
Intensities(surfaces, heights, coords, n, include_sun, include_earthshine, earth_panel_density, earth_brdf) ==
    [i \in 1..n |->
        calculate_intensity(surfaces, heights.data[i], coords[i][4],
                            << coords[i][1], coords[i][2], coords[i][3] >>,
                            include_sun, include_earthshine, earth_panel_density,
                            earth_brdf)]

\* the test of line 118 had it been written with >=
InDaylightInclusive(sun_altitude) == sun_altitude # NaN /\ sun_altitude >= 0

\* the test of line 118: the observatory is in daylight
InDaylight(sun_altitude) == FGt(sun_altitude, 0)

\* lines 124-125: a scalar sat_heights becomes an array of the output shape
HeightsArray(sat_heights, size) ==
    IF sat_heights.ndarray THEN sat_heights
    ELSE [sat_heights EXCEPT !.data = [i \in 1..size |-> sat_heights.data[1]]]

\* lines 130-131: the coordinates of the n broadcast elements
Coordinates(sat_altitudes, sat_azimuths, heights, n, sun_altitude, sun_azimuth) ==
    [i \in 1..n |->
        get_brightness_coords(Broadcast(sat_altitudes, i), Broadcast(sat_azimuths, i),
                              Broadcast(heights, i), sun_altitude, sun_azimuth)]

\* line 138 left out: the intensity array stays flat
ReshapeFlat(r, output_shape, dtype) ==
    IF r.status = "raised" THEN r
    ELSE [status |-> "returned", trace |-> r.trace,
          value |-> [shape |-> << Len(r.value) >>, dtype |-> dtype, data |-> r.value]]

\* line 138: intensity.reshape(output_shape)
Reshape(r, output_shape, dtype) ==
    IF r.status = "raised" THEN r
    ELSE [status |-> "returned", trace |-> r.trace,
          value |-> [shape |-> output_shape, dtype |-> dtype, data |-> r.value]]

\* lines 128-138: the loop and the reshape, given the result of every call
LoopOver(results, n, output_shape, dtype, size) ==
    Strict(results,
           Reshape(BatchLoop(results, 1, n, [i \in 1..size |-> 0],
                             << Event("get_brightness_coords", 0) >>, dtype, size),
                   output_shape, dtype))

\* lines 128-138: the loop over the transformed coordinates and the reshape
Loop(surfaces, heights, coords, n, output_shape, dtype, size, include_sun, include_earthshine, earth_panel_density, earth_brdf) ==
    Strict(coords,
           LoopOver(Intensities(surfaces, heights, coords, n, include_sun,
                                include_earthshine, earth_panel_density, earth_brdf),
                    n, output_shape, dtype, size))

\* the number of elements of the flattened sat_alts (size elements)
\* broadcast against the flattened sat_heights (nh elements)
BroadcastSize(size, nh) == IF size = 1 THEN nh ELSE size

\* lines 127-138 for the heights array of lines 124-125.  The arrays that do
\* not broadcast make get_brightness_coords raise; zip stops the loop at the
\* shorter of the coordinates and the heights.
Batch(surfaces, heights, sat_altitudes, sat_azimuths, size, sun_altitude, sun_azimuth, include_sun, include_earthshine, earth_panel_density, earth_brdf) ==
    IF size # Len(heights.data) /\ size # 1 /\ Len(heights.data) # 1
    THEN Raised("ValueError", << Event("get_brightness_coords", 0) >>)
    ELSE Loop(surfaces, heights,
              Coordinates(sat_altitudes, sat_azimuths, heights,
                          BroadcastSize(size, Len(heights.data)),
                          sun_altitude, sun_azimuth),
              Min(BroadcastSize(size, Len(heights.data)), Len(heights.data)),
              sat_altitudes.shape, sat_altitudes.dtype, size, include_sun,
              include_earthshine, earth_panel_density, earth_brdf)

\* calculate_intensity(sat_surfaces, sat_heights, sat_altitudes, sat_azimuths,
\*     sun_altitude, sun_azimuth, include_sun, include_earthshine,
\*     earth_panel_density, earth_brdf) of ground_frame.py;
\* sat_altitudes and sat_azimuths have the same shape
ground_calculate_intensity(surfaces, sat_heights, sat_altitudes, sat_azimuths, sun_altitude, sun_azimuth, include_sun, include_earthshine, earth_panel_density, earth_brdf) ==
    IF InDaylight(sun_altitude) THEN Raised("ValueError", <<>>)
    ELSE Batch(surfaces, HeightsArray(sat_heights, Size(sat_altitudes.shape)),
               sat_altitudes, sat_azimuths, Size(sat_altitudes.shape),
               sun_altitude, sun_azimuth, include_sun, include_earthshine,
               earth_panel_density, earth_brdf)

-----------------------------------------------------------------------------


-----------------------------------------------------------------------------
(* conversions.py: intensity_to_ab_mag.  An intensity is an integer number *)
(* of 1e-14 W/m^2; log_val is an integer number of millionths, so that the *)
(* clip floor 10e-6 is 10; the AB magnitude is a fixed-point value.        *)

\* constants.py: the wavelength in nanometres, the speed of light in
\* 1e8 m/s
WAVELENGTH == 532

SPEED_OF_LIGHT == 3

\* float64 infinity: np.log10(0) is -inf (with a RuntimeWarning)
Inf == 1999999999

\* n * a / b on naturals, rounded, formed without leaving 32 bits
MulDiv(n, a, b) == (n \div b) * a + Quo((n % b) * a, b)

\* intensity * WAVELENGTH / (SPEED_OF_LIGHT * 3631e-26), in millionths:
\* 1e-14 * 532e-9 / (3e8 * 3631e-26) = 532 * 10 / (3 * 3631) millionths
LogVal(intensity) ==
    CASE intensity = NaN -> NaN
      [] OTHER -> Sign(intensity)
                  * MulDiv(Abs(intensity), WAVELENGTH * 10, SPEED_OF_LIGHT * 3631)

\* a log_val that is not clipped, whatever clip says
ClipNever(log_val, clip) == log_val

\* if clip: log_val = np.clip(log_val, 10e-6, None)
ClipLogVal(log_val, clip) ==
    IF clip
    THEN CASE log_val = NaN -> NaN [] log_val < 10 -> 10 [] OTHER -> log_val
    ELSE log_val

\* natural logarithm of a positive fixed-point value, below 1 as well
LnPos(y) == IF y < S THEN FNeg(Ln(Quo(S * S, y))) ELSE Ln(y)

\* np.log10 of a value in millionths, a fixed-point value: nan below 0,
\* -inf at 0
Log10Millionths(v) ==
    CASE v = NaN -> NaN
      [] v < 0 -> NaN
      [] v = 0 -> -Inf
      [] OTHER -> FDiv(LnPos(v), 2303) - 3 * S

\* 2.5 * np.log10(log_val): the magnitude with its sign lost
AbMagPositive(log10_val) ==
    CASE log10_val = NaN -> NaN
      [] log10_val = -Inf -> -Inf
      [] OTHER -> Quo(25 * log10_val, 10)

\* ab_mag = -2.5 * np.log10(log_val)
AbMag(log10_val) ==
    CASE log10_val = NaN -> NaN
      [] log10_val = -Inf -> Inf
      [] OTHER -> Quo(-25 * log10_val, 10)

\* intensity_to_ab_mag on one element
intensity_to_ab_mag(intensity, clip) ==
    AbMag(Log10Millionths(ClipLogVal(LogVal(intensity), clip)))

-----------------------------------------------------------------------------
(* The Surface objects and the elements of a batch, as the calculators     *)
(* leave and see them                                                      *)

\* the loop over the surfaces is reached: the satellite is lit, above the
\* observer's horizon, and the earth BRDF (when asked for) can be called
ReachesLoop(sat_height, angle_past_terminator, observer_position, include_earthshine, earth_brdf) ==
    /\ ~InShadow(angle_past_terminator, HorizonAngle(sat_height))
    /\ ~NotVisible(observer_position[3], HorizonAngle(sat_height))
    /\ ~(include_earthshine /\ earth_brdf.kind = "None")

\* the body of the loop had it stored the resolved normal in the surface
SurfaceResolved(surface, surface_normal) ==
    [surface EXCEPT !.normal = [callable |-> FALSE, v |-> surface_normal]]

\* a Surface after the body of the loop (lines 156-191) has run for it:
\* surface_normal is a local name, and area, normal and brdf are only read
SurfaceAfter(surface, surface_normal) == surface

\* the list sat_surfaces after the loop of one calculation
SurfacesAfter(surfaces, angle_past_terminator) ==
    [k \in 1..Len(surfaces) |->
        SurfaceAfter(surfaces[k],
                     SurfaceNormal(surfaces[k].normal, angle_past_terminator))]

\* line 133 of ground_frame.py: (x, y, z, alpha, h) of one element of the zip
ElementOf(h, c) ==
    [sat_height |-> h, angle_past_terminator |-> c[4],
     observer_position |-> << c[1], c[2], c[3] >>]

\* lines 121-131 of ground_frame.py: for each element of the broadcast
\* arrays, the height, the angle past the terminator and the observer
\* position the scalar calculator is called with
GroundElements(sat_heights, sat_altitudes, sat_azimuths, sun_altitude, sun_azimuth) ==
    LET size == Size(sat_altitudes.shape)
        heights == HeightsArray(sat_heights, size)
        m == BroadcastSize(size, Len(heights.data))
        coords == Coordinates(sat_altitudes, sat_azimuths, heights, m,
                              sun_altitude, sun_azimuth)
    IN  [i \in 1..m |-> ElementOf(Broadcast(heights, i), coords[i])]

\* the number of calls of the scalar calculator a batch has made
Called(trace) ==
    Cardinality({ j \in 1..Len(trace) : trace[j].ev = "calculate_intensity" })

\* the list sat_surfaces after the call of the scalar calculator for the
\* element e
SurfacesAfterElement(surfaces, e, include_earthshine, earth_brdf) ==
    IF ReachesLoop(e.sat_height, e.angle_past_terminator, e.observer_position,
                   include_earthshine, earth_brdf)
    THEN SurfacesAfter(surfaces, e.angle_past_terminator)
    ELSE surfaces

\* the list sat_surfaces after the first n calls of a batch, from call i on
RECURSIVE BatchSurfacesAfter(_, _, _, _, _, _)
BatchSurfacesAfter(surfaces, elements, n, include_earthshine, earth_brdf, i) ==
    IF i > n THEN surfaces
    ELSE BatchSurfacesAfter(SurfacesAfterElement(surfaces, elements[i],
                                                 include_earthshine, earth_brdf),
                            elements, n, include_earthshine, earth_brdf, i + 1)
(* The callers: surfaces, BRDFs and inputs as the examples build them      *)

\* the largest earth_panel_density a call is made with
MaxDensity == 3

Densities == 2..MaxDensity

NoBRDF == [kind |-> "None"]

Lambertian == [kind |-> "LAMBERTIAN", albedo |-> S]

Abg == [kind |-> "ABG", A |-> 100, B |-> 100, g |-> 2]

Gaussian == [kind |-> "GAUSSIAN", A |-> S, sigma |-> 500]

Phong2 == [kind |-> "PHONG", Kd |-> S, Ks |-> S, n |-> 2]

Phong1 == [kind |-> "PHONG", Kd |-> S, Ks |-> S, n |-> 1]

Binomial == [kind |-> "BINOMIAL", B |-> << << -500, 200 >> >>, C |-> << << -1000 >> >>,
             d |-> 2000, l1 |-> 0]

Catalog == {Lambertian, Abg, Gaussian, Phong2, Binomial}

\* Surface(area, normal, brdf)
Surface(area, normal, brdf) == [area |-> area, normal |-> normal, brdf |-> brdf]

Fixed(v) == [callable |-> FALSE, v |-> v]

Callable(f) == [callable |-> TRUE, f |-> f]

\* examples/brightness_frame.py
nadir1 == Surface(10 * S, Fixed(<< 0, 0, -S >>), Lambertian)

nadir2 == Surface(10 * S, Fixed(<< 0, 0, -S >>), Abg)

\* examples/satellite.py
chassis == Surface(S, Fixed(<< 0, 0, -S >>), Phong2)

solar_array == Surface(S, Fixed(<< 0, S, 0 >>), Phong1)

\* a diffuse panel on the side of the bus, its normal along the y axis
side_panel == Surface(S, Fixed(<< 0, S, 0 >>), Lambertian)

\* a sun-tracking array: its normal is a function of the angle past the
\* terminator
tracking_array == Surface(5 * S, Callable("toward_sun"), Gaussian)

SatelliteModels ==
    { <<>>, << nadir1 >>, << nadir1, nadir2 >>, << chassis, solar_array >>,
      << tracking_array, chassis >>, << side_panel >> }

\* satellite heights (km): inside the Earth, on the surface, two orbits
SatHeights == {-100, 0, 550, 1200}

\* angles past the terminator: sub-solar, day side, terminator, night side,
\* the horizon angle of the height and the next representable angle, shadow
PhaseAngles(h) ==
    {-HALF_PI, -500, 0, 200, S}
    \cup (IF IsNaN(HorizonAngle(h)) THEN {} ELSE {HorizonAngle(h), HorizonAngle(h) + 1})

\* observer positions in the brightness frame (km): on the ground at
\* 0, 0.2, 0.41, 0.415 and 0.6 rad from the sub-satellite point, and at the
\* satellite itself
ObserverPositions(h) ==
    { << 0, 0, EARTH_RADIUS >>, << 0, 1276, 6250 >>, << -1276, 0, 6250 >>,
      << 0, -2564, 5840 >>, << 0, 2586, 5830 >>, << 0, 3597, 5255 >>,
      << 0, 0, EARTH_RADIUS + h >> }

\* include_sun, include_earthshine, earth_panel_density, earth_brdf
Config(sun, earth, d, brdf) ==
    [include_sun |-> sun, include_earthshine |-> earth,
     earth_panel_density |-> d, earth_brdf |-> brdf]

Configs ==
    { Config(TRUE, FALSE, 2, NoBRDF), Config(FALSE, FALSE, 2, NoBRDF) }
    \cup { Config(sun, TRUE, d, Lambertian) : sun \in BOOLEAN, d \in Densities }
    \cup { Config(TRUE, TRUE, d, NoBRDF) : d \in Densities }

\* np.asarray of a nested list, and a Python scalar
Array(shape, data) == [shape |-> shape, dtype |-> "float64", data |-> data, ndarray |-> TRUE]

Scalar(v) == [shape |-> <<>>, dtype |-> "float64", data |-> << v >>, ndarray |-> FALSE]

\* np.asarray of a list of Python ints
IntArray(shape, data) == [shape |-> shape, dtype |-> "int64", data |-> data, ndarray |-> TRUE]

\* sat_altitudes and sat_azimuths (degrees): a scalar, 1-d arrays of one and
\* of two directions, a 2 x 2 and a 1 x 1 x 2 grid, an empty array, and a
\* 1-d array of two directions given in whole degrees
SkyGrids ==
    { << Scalar(60000), Scalar(90000) >>,
      << Array(<< 1 >>, << 45000 >>), Array(<< 1 >>, << 180000 >>) >>,
      << Array(<< 2 >>, << 90000, 30000 >>), Array(<< 2 >>, << 0, 180000 >>) >>,
      << Array(<< 2, 2 >>, << 90000, 60000, 30000, 10000 >>),
         Array(<< 2, 2 >>, << 0, 90000, 180000, 270000 >>) >>,
      << Array(<< 1, 1, 2 >>, << 75000, 20000 >>), Array(<< 1, 1, 2 >>, << 45000, 315000 >>) >>,
      << Array(<< 0 >>, <<>>), Array(<< 0 >>, <<>>) >>,
      << IntArray(<< 2 >>, << 60000, 30000 >>), IntArray(<< 2 >>, << 90000, 180000 >>) >> }

\* sat_heights (km) for a sat_altitudes array: a scalar, an array of the
\* same shape, an array of one element and an array of three
HeightsFor(sat_altitudes) ==
    { Scalar(550), Scalar(1200),
      Array(sat_altitudes.shape,
            [i \in 1..Size(sat_altitudes.shape) |-> IF i % 2 = 1 THEN 550 ELSE 1200]),
      Array(<< 1 >>, << 550 >>),
      Array(<< 3 >>, << 550, 1200, 550 >>) }

\* sun_altitude and sun_azimuth (degrees): evening twilight as in
\* examples/ground_frame.py, night with a part of the sky in the Earth's
\* shadow, the sun on the horizon, at the nadir, and above the horizon by 5
\* and by 0.001 degrees
SunPositions ==
    { << -20000, 270000 >>, << -30000, 270000 >>, << 0, 90000 >>, << -90000, 0 >>,
      << 5000, 270000 >>, << 1, 0 >> }

GroundConfigs ==
    { Config(TRUE, FALSE, 2, NoBRDF), Config(TRUE, TRUE, 2, Lambertian),
      Config(FALSE, TRUE, 2, NoBRDF) }

\* unit vectors with components in {0, +-0.6, +-0.8, +-1}
UnitVectors ==
    { v \in {-S, -800, -600, 0, 600, 800, S} \X {-S, -800, -600, 0, 600, 800, S}
            \X {-S, -800, -600, 0, 600, 800, S} :
        v[1] * v[1] + v[2] * v[2] + v[3] * v[3] = S * S }

\* the vectors a BRDF is called with: along and against the z and y axes
\* and oblique
Directions ==
    { << 0, 0, S >>, << 0, 0, -S >>, << 0, S, 0 >>, << 0, -S, 0 >>,
      << 0, 600, 800 >>, << 0, -600, 800 >>, << 600, 0, -800 >>, << 0, 800, -600 >> }

Normals == { << 0, 0, S >>, << 0, 0, -S >>, << 0, S, 0 >> }

\* the (incident, outgoing) arrays of a BRDF call: one pair, or two pairs
\* of which one is the specular pair about the z axis
BeamArrays ==
    { << [i |-> i, o |-> o] >> : i \in Directions, o \in Directions }
    \cup { << [i |-> i, o |-> o], [i |-> << 0, -600, 800 >>, o |-> << 0, 600, 800 >>] >> :
             i \in Directions, o \in Directions }
    \cup { << [i |-> << 0, -600, 800 >>, o |-> << 0, 600, 800 >>], [i |-> i, o |-> o] >> :
             i \in Directions, o \in Directions }

\* polar and azimuthal angles in radians, as plot/brdf.py passes them
PolarAngles == {0, 524, 785, 1047, HALF_PI, 2094, PI}

AzimuthAngles == {0, 785, HALF_PI, 2356, PI, -HALF_PI, -785}

\* intensities (1e-14 W/m^2): nan, negative, zero, below the clip floor
\* (20.5), just above it, 3 % apart, and up to 1e-5 W/m^2 and above
IntensityValues ==
    { NaN, -50, 0, 3, 20, 23, 50, 1000, 1030, 100000, 1000000, 1000000000,
      1500000000 }

\* the intensity argument: an array of one element or of two
IntensityArrays ==
    { << i >> : i \in IntensityValues }
    \cup { << i, j >> : i \in IntensityValues, j \in IntensityValues }

\* the components of the matrices det_2 is called with
Entries == {-S, 0, S, 2 * S, 3 * S}

\* the rows of the 3 x 3 matrices det_3 and inv_3 are called with
Rows ==
    { << S, 0, 0 >>, << 0, S, 0 >>, << 0, 0, S >>, << S, 2 * S, 0 >>,
      << -S, S, 2 * S >>, << 2 * S, -S, S >>, << 0, 2 * S, S >> }

Matrices == Rows \X Rows \X Rows

-----------------------------------------------------------------------------
(* The state machine                                                       *)

-----------------------------------------------------------------------------
(* calculator.py: the former scalar calculator get_intensity_satellite_frame *)

\* surface_normalizations of one panel (lines 179-185): the cosine between the
\* surface normal and the direction from the satellite to the panel, clipped
LegacySurfaceNormalization(surface_normal, panel_sat) ==
    Clip0(FSub(FSub(FNeg(FMul(surface_normal[1], panel_sat[1])),
                    FMul(surface_normal[2], panel_sat[2])),
               FMul(surface_normal[3], panel_sat[3])))

\* panel_observing_normalization of one panel (lines 187-193)
PanelObservingNormalization(p, panel_sat) ==
    Clip0(Dot3(<< p.nx, p.ny, p.nz >>, panel_sat))

\* the summand of the panel p, m of the mesh in the sum of lines 199-203
LegacyPanelTerm(p, m, surface, surface_normal, sat_obs) ==
    FDiv(FMul(m.area,
              FMul(FMul(FMul(FMul(FMul(m.brdf,
                                       BRDF(surface.brdf,
                                            << FNeg(m.panel_sat[1]), FNeg(m.panel_sat[2]),
                                               FNeg(m.panel_sat[3]) >>,
                                            surface_normal, sat_obs)),
                                  m.normalization),
                             ObserverNormalization(surface_normal, sat_obs)),
                        LegacySurfaceNormalization(surface_normal, m.panel_sat)),
                   PanelObservingNormalization(p, m.panel_sat))),
         m.dist2)

\* the earthshine term of a surface (lines 177-203)
LegacyEarthContribution(surface, surface_normal, sat_obs, include_earthshine, panels, mesh) ==
    IF include_earthshine
    THEN SumSeq([j \in 1..Len(mesh) |->
                    LegacyPanelTerm(panels[j], mesh[j], surface, surface_normal, sat_obs)])
    ELSE 0

\* the body of the loop over sat_surfaces for one surface (lines 156-205)
LegacySurfaceTerm(surface, vector_2_sun, surface_normal, sat_obs, dist2_sat_2_obs, include_sun, include_earthshine, panels, mesh) ==
    Strict(<< vector_2_sun, surface_normal >>,
    OverDistSq(Times(SUN_INTENSITY,
                     FMul(surface.area,
                          FAdd(SunContribution(surface, vector_2_sun, surface_normal,
                                               sat_obs, include_sun),
                               LegacyEarthContribution(surface, surface_normal, sat_obs,
                                                       include_earthshine, panels, mesh)))),
               dist2_sat_2_obs))

\* the loop of line 154 from surface k on
RECURSIVE LegacySurfaceLoop(_, _, _, _, _, _, _, _, _, _, _)
LegacySurfaceLoop(surfaces, k, intensity, trace, angle_past_terminator, sat_obs, dist2, include_sun, include_earthshine, panels, mesh) ==
    IF k > Len(surfaces) THEN [value |-> intensity, trace |-> trace]
    ELSE Strict(<< intensity, trace >>,
         LegacySurfaceLoop(surfaces, k + 1,
                           FAdd(intensity,
                                LegacySurfaceTerm(surfaces[k], SunVector(angle_past_terminator),
                                                  SurfaceNormal(surfaces[k].normal,
                                                                angle_past_terminator),
                                                  sat_obs, dist2, include_sun,
                                                  include_earthshine, panels, mesh)),
                           trace \o SurfaceEvents(surfaces[k], k, include_sun, include_earthshine),
                           angle_past_terminator, sat_obs, dist2, include_sun,
                           include_earthshine, panels, mesh))

\* lines 134-207 given the panels of get_earthshine_panels
LegacyAccumulate(surfaces, sat_z, angle_past_terminator, sat_obs, dist2_sat_2_obs, include_sun, include_earthshine, earth_brdf, panels) ==
    Strict(<< sat_obs, dist2_sat_2_obs, panels >>,
           LoopResult(LegacySurfaceLoop(surfaces, 1, 0, <<>>, angle_past_terminator, sat_obs,
                                        dist2_sat_2_obs, include_sun, include_earthshine, panels,
                                        IF include_earthshine
                                        THEN MeshOf(panels, sat_z,
                                                    SunVector(angle_past_terminator), earth_brdf)
                                        ELSE <<>>),
                      include_earthshine))

\* lines 121-207: the calculation for a lit satellite above the horizon
LegacyProceed(surfaces, sat_z, angle_past_terminator, observer_position, dist_sat_2_obs, include_sun, include_earthshine, earth_panel_density, earth_brdf) ==
    IF include_earthshine /\ earth_brdf.kind = "None"
    THEN Raised("TypeError", SetupEvents(include_earthshine))
    ELSE Strict(dist_sat_2_obs,
         LegacyAccumulate(surfaces, sat_z, angle_past_terminator,
                          SatObs(observer_position, sat_z, dist_sat_2_obs),
                          LMul(dist_sat_2_obs, dist_sat_2_obs), include_sun,
                          include_earthshine, earth_brdf,
                          IF include_earthshine
                          THEN get_earthshine_panels(sat_z, angle_past_terminator,
                                                     earth_panel_density)
                          ELSE <<>>))

\* the former calculator had it tested the visibility without the margin of
\* one degree
SatelliteFrameNoMargin(surfaces, sat_height, angle_past_terminator, observer_position, include_sun, include_earthshine, earth_panel_density, earth_brdf) ==
    IF InShadow(angle_past_terminator, HorizonAngle(sat_height))
    THEN Returned(0, <<>>)
    ELSE IF NotVisibleNoMargin(observer_position[3], HorizonAngle(sat_height))
    THEN Returned(0, <<>>)
    ELSE LegacyProceed(surfaces, FAdd(sat_height, EARTH_RADIUS), angle_past_terminator,
                       observer_position,
                       DistSatToObs(observer_position, FAdd(sat_height, EARTH_RADIUS)),
                       include_sun, include_earthshine, earth_panel_density, earth_brdf)

\* get_intensity_satellite_frame(sat_surfaces, sat_height,
\*     angle_past_terminator, observer_position, include_sun,
\*     include_earthshine, earth_panel_density, earth_brdf) (lines 77-207)
get_intensity_satellite_frame(surfaces, sat_height, angle_past_terminator, observer_position, include_sun, include_earthshine, earth_panel_density, earth_brdf) ==
    IF InShadow(angle_past_terminator, HorizonAngle(sat_height))
    THEN Returned(0, <<>>)
    ELSE IF NotVisible(observer_position[3], HorizonAngle(sat_height))
    THEN Returned(0, <<>>)
    ELSE LegacyProceed(surfaces, FAdd(sat_height, EARTH_RADIUS), angle_past_terminator,
                       observer_position,
                       DistSatToObs(observer_position, FAdd(sat_height, EARTH_RADIUS)),
                       include_sun, include_earthshine, earth_panel_density, earth_brdf)

-----------------------------------------------------------------------------
(* calculator.py: the former entry point get_intensity_observer_frame      *)

\* the default of earth_panel_density
DefaultDensity == 150

\* Python values of the arguments that one call passes on to the next under
\* another name: a bool, an int and a float (degrees, in thousandths)
PyBool(b) == [type |-> "bool", v |-> b]

PyInt(n) == [type |-> "int", v |-> n]

PyFloat(x) == [type |-> "float", v |-> x]

\* a value numpy and the comparison with 0 accept: not None and not a function
IsNumber(x) == "type" \in DOMAIN x

\* line 315: sun_altitude > 0
Positive(x) ==
    CASE x.type = "bool" -> x.v
      [] x.type = "int" -> x.v > 0
      [] OTHER -> FGt(x.v, 0)

\* a float64 that get_brightness_coords computes in a call made by the loop
\* and that no later step reads
Unread == "unread"

\* the number of elements of arrays of these sizes broadcast together
BroadcastOf(sizes) == IF sizes \ {1} = {} THEN 1 ELSE CHOOSE s \in sizes \ {1} : TRUE

\* lines 327-328: the coordinates of the m broadcast elements
LegacyCoordinates(level, sat_alts, sat_azs, heights, m, sun_altitude, sun_azimuth) ==
    IF level = 0
    THEN Coordinates(sat_alts, sat_azs, heights, m, sun_altitude.v, sun_azimuth.v)
    ELSE [i \in 1..m |-> << Unread, Unread, Unread, Unread >>]

\* lines 331-333: the arguments (sat_surfaces, h, alpha, (x, y, z), include_sun,
\* include_earthshine, earth_panel_density, earth_brdf) under the names of the
\* parameters of get_intensity_observer_frame that receive them
InnerArgs(a, h, c) ==
    [sat_heights |-> Scalar(h), sat_altitudes |-> Scalar(c[4]),
     sat_azimuths |-> Array(<< 3 >>, << c[1], c[2], c[3] >>),
     sun_altitude |-> a.include_sun, sun_azimuth |-> a.include_earthshine,
     include_sun |-> a.earth_panel_density, include_earthshine |-> a.earth_brdf,
     earth_panel_density |-> PyInt(DefaultDensity), earth_brdf |-> NoBRDF]

RECURSIVE get_intensity_observer_frame(_, _, _, _)
RECURSIVE LegacyLoop(_, _, _, _, _, _, _, _, _)

\* lines 330-333: the loop from element i to element n; each element calls
\* get_intensity_observer_frame
LegacyLoop(surfaces, a, level, coords, heights, i, n, intensity, trace) ==
    IF i > n THEN Returned(intensity, trace)
    ELSE LET r == get_intensity_observer_frame(surfaces,
                                               InnerArgs(a, heights.data[i], coords[i]),
                                               level + 1, trace)
         IN  CASE r.status = "raised" -> r
               [] i > Len(intensity) -> Raised("IndexError", r.trace)
               [] OTHER ->
                    LegacyLoop(surfaces, a, level, coords, heights, i + 1, n,
                               [intensity EXCEPT ![i] = r.value], r.trace)

\* get_intensity_observer_frame(sat_surfaces, sat_heights, sat_altitudes,
\*     sat_azimuths, sun_altitude, sun_azimuth, include_sun,
\*     include_earthshine, earth_panel_density, earth_brdf), lines 276-336,
\* with the arguments in the record a, at the given depth of the recursion
get_intensity_observer_frame(surfaces, a, level, trace) ==
    LET entered == Append(trace, Event("get_intensity_observer_frame", level))
        called  == Append(entered, Event("get_brightness_coords", level))
        size    == Size(a.sat_altitudes.shape)
        heights == HeightsArray(a.sat_heights, size)
        sizes   == { size, Size(a.sat_azimuths.shape), Len(heights.data) }
    IN  CASE ~IsNumber(a.sun_altitude) -> Raised("TypeError", entered)
          [] Positive(a.sun_altitude) -> Raised("ValueError", entered)
          [] ~IsNumber(a.sun_azimuth) -> Raised("TypeError", called)
          [] Cardinality(sizes \ {1}) > 1 -> Raised("ValueError", called)
          [] OTHER ->
               Reshape(LegacyLoop(surfaces, a, level,
                                  LegacyCoordinates(level, a.sat_altitudes, a.sat_azimuths,
                                                    heights, BroadcastOf(sizes),
                                                    a.sun_altitude, a.sun_azimuth),
                                  heights, 1, Min(BroadcastOf(sizes), Len(heights.data)),
                                  [i \in 1..size |-> 0], called),
                       a.sat_altitudes.shape, a.sat_altitudes.dtype)

\* include_sun, include_earthshine, earth_panel_density and earth_brdf of a
\* call of the former entry point
LegacyConfigs ==
    { Config(sun, earth, d, brdf) :
        sun \in BOOLEAN, earth \in BOOLEAN, d \in {0, 2, DefaultDensity},
        brdf \in {NoBRDF, Lambertian} }

\* No call is in progress and no surface is built.  The calls are
\* synchronous: the caller makes one call at a time and takes its result
\* (or its exception) before the next.
Init ==
    /\ sat_surfaces = <<>>
    /\ op = "idle"
    /\ args = <<>>
    /\ out = <<>>

\* the caller builds the list of Surface objects of a satellite model
BuildSatellite ==
    /\ op = "idle"
    /\ \E m \in SatelliteModels : sat_surfaces' = m
    /\ UNCHANGED << op, args, out >>

\* the caller takes the result of the last call
TakeResult ==
    /\ op # "idle"
    /\ op' = "idle"
    /\ args' = <<>>
    /\ out' = <<>>
    /\ UNCHANGED sat_surfaces

\* a call of calculators/brightness_frame.calculate_intensity
CallBrightnessFrame ==
    \E h \in SatHeights, c \in Configs :
      \E a \in PhaseAngles(h), o \in ObserverPositions(h) :
        /\ op = "idle"
        /\ op' = "brightness_frame"
        /\ args' = [sat_height |-> h, angle_past_terminator |-> a,
                    observer_position |-> o, config |-> c]
        /\ out' = calculate_intensity(sat_surfaces, h, a, o, c.include_sun,
                                      c.include_earthshine, c.earth_panel_density,
                                      c.earth_brdf)
        /\ sat_surfaces' = IF ReachesLoop(h, a, o, c.include_earthshine, c.earth_brdf)
                           THEN SurfacesAfter(sat_surfaces, a)
                           ELSE sat_surfaces

\* a call of calculator.get_intensity_satellite_frame
CallSatelliteFrame ==
    \E h \in SatHeights, c \in Configs :
      \E a \in PhaseAngles(h), o \in ObserverPositions(h) :
        /\ op = "idle"
        /\ op' = "satellite_frame"
        /\ args' = [sat_height |-> h, angle_past_terminator |-> a,
                    observer_position |-> o, config |-> c]
        /\ out' = get_intensity_satellite_frame(sat_surfaces, h, a, o, c.include_sun,
                                                c.include_earthshine, c.earth_panel_density,
                                                c.earth_brdf)
        /\ sat_surfaces' = IF ReachesLoop(h, a, o, c.include_earthshine, c.earth_brdf)
                           THEN SurfacesAfter(sat_surfaces, a)
                           ELSE sat_surfaces

\* a direct call of get_earthshine_panels
CallEarthshinePanels ==
    \E h \in SatHeights, d \in Densities :
      \E a \in PhaseAngles(h) :
        /\ op = "idle"
        /\ op' = "get_earthshine_panels"
        /\ args' = [sat_z |-> EARTH_RADIUS + h, angle_past_terminator |-> a, density |-> d]
        /\ out' = Returned(get_earthshine_panels(EARTH_RADIUS + h, a, d), <<>>)
        /\ UNCHANGED sat_surfaces

\* a call of calculators/ground_frame.calculate_intensity
CallGroundFrame ==
    \E g \in SkyGrids, sun \in SunPositions, c \in GroundConfigs :
      \E heights \in HeightsFor(g[1]) :
        /\ op = "idle"
        /\ op' = "ground_frame"
        /\ args' = [sat_heights |-> heights, sat_altitudes |-> g[1], sat_azimuths |-> g[2],
                    sun_altitude |-> sun[1], sun_azimuth |-> sun[2], config |-> c]
        /\ out' = ground_calculate_intensity(sat_surfaces, heights, g[1], g[2],
                                             sun[1], sun[2], c.include_sun,
                                             c.include_earthshine, c.earth_panel_density,
                                             c.earth_brdf)
        /\ sat_surfaces' = BatchSurfacesAfter(sat_surfaces,
                                              GroundElements(heights, g[1], g[2],
                                                             sun[1], sun[2]),
                                              Called(out'.trace), c.include_earthshine,
                                              c.earth_brdf, 1)

\* a call of calculator.get_intensity_observer_frame
CallObserverFrame ==
    \E g \in SkyGrids, sun \in SunPositions, c \in LegacyConfigs :
      \E heights \in HeightsFor(g[1]) :
        /\ op = "idle"
        /\ op' = "observer_frame"
        /\ args' = [sat_heights |-> heights, sat_altitudes |-> g[1], sat_azimuths |-> g[2],
                    sun_altitude |-> sun[1], sun_azimuth |-> sun[2], config |-> c]
        /\ out' = get_intensity_observer_frame(
                      sat_surfaces,
                      [sat_heights |-> heights, sat_altitudes |-> g[1],
                       sat_azimuths |-> g[2], sun_altitude |-> PyFloat(sun[1]),
                       sun_azimuth |-> PyFloat(sun[2]),
                       include_sun |-> PyBool(c.include_sun),
                       include_earthshine |-> PyBool(c.include_earthshine),
                       earth_panel_density |-> PyInt(c.earth_panel_density),
                       earth_brdf |-> c.earth_brdf],
                      0, <<>>)
        /\ UNCHANGED sat_surfaces

\* a call of a BRDF function of the catalog on arrays of incident and
\* outgoing vectors: numpy evaluates it element by element
CallBRDF ==
    \E m \in Catalog, n \in Normals, beams \in BeamArrays :
        /\ op = "idle"
        /\ op' = "brdf"
        /\ args' = [model |-> m, normal |-> n, beams |-> beams]
        /\ out' = Returned([j \in 1..Len(beams) |-> BRDF(m, beams[j].i, n, beams[j].o)],
                           <<>>)
        /\ UNCHANGED sat_surfaces

\* satellite altitudes and azimuths (thousandths of a degree) of a direct
\* call of the frame transform: horizon, two elevations and the zenith
FrameAltitudes == {0, 30000, 60000, 90000}

FrameAzimuths == {0, 90000, 180000, 270000}

\* a call of calculators/ground_frame.get_brightness_coords on scalars
CallBrightnessCoords ==
    \E alt \in FrameAltitudes, az \in FrameAzimuths, h \in {550, 1200}, sun \in SunPositions :
        /\ op = "idle"
        /\ op' = "brightness_coords"
        /\ args' = [sat_alt |-> alt, sat_az |-> az, sat_height |-> h,
                    sun_alt |-> sun[1], sun_az |-> sun[2]]
        /\ out' = Returned(get_brightness_coords(alt, az, h, sun[1], sun[2]), <<>>)
        /\ UNCHANGED sat_surfaces

\* a call of conversions.unit_to_spherical
CallUnitToSpherical ==
    \E v \in UnitVectors :
        /\ op = "idle"
        /\ op' = "unit_to_spherical"
        /\ args' = [x |-> v[1], y |-> v[2], z |-> v[3]]
        /\ out' = Returned(unit_to_spherical(v[1], v[2], v[3]), <<>>)
        /\ UNCHANGED sat_surfaces

\* a call of conversions.spherical_to_unit: on angles the caller has, or on
\* the result of unit_to_spherical, spherical_to_unit(*unit_to_spherical(*v));
\* of_unit is v in the second case
CallSphericalToUnit ==
    /\ \/ /\ op = "idle"
          /\ \E phi \in PolarAngles, theta \in AzimuthAngles :
                /\ args' = [phi |-> phi, theta |-> theta, of_unit |-> <<>>]
                /\ out' = Returned(spherical_to_unit(phi, theta), <<>>)
       \/ /\ op = "unit_to_spherical"
          /\ args' = [phi |-> out.value[1], theta |-> out.value[2],
                      of_unit |-> << args.x, args.y, args.z >>]
          /\ out' = Returned(spherical_to_unit(out.value[1], out.value[2]), <<>>)
    /\ op' = "spherical_to_unit"
    /\ UNCHANGED sat_surfaces

\* a call of conversions.intensity_to_ab_mag on an array of intensities:
\* numpy evaluates it element by element
CallIntensityToAbMag ==
    \E a \in IntensityArrays, clip \in BOOLEAN :
        /\ op = "idle"
        /\ op' = "intensity_to_ab_mag"
        /\ args' = [intensity |-> a, clip |-> clip]
        /\ out' = Returned([j \in 1..Len(a) |-> intensity_to_ab_mag(a[j], clip)], <<>>)
        /\ UNCHANGED sat_surfaces

\* a call of functions.det_2
CallDet2 ==
    \E a11 \in Entries, a12 \in Entries, a21 \in Entries, a22 \in Entries :
        /\ op = "idle"
        /\ op' = "det_2"
        /\ args' = << << a11, a12 >>, << a21, a22 >> >>
        /\ out' = Returned(det_2(a11, a12, a21, a22), <<>>)
        /\ UNCHANGED sat_surfaces

\* a call of functions.det_3
CallDet3 ==
    \E A \in Matrices :
        /\ op = "idle"
        /\ op' = "det_3"
        /\ args' = A
        /\ out' = Returned(det_3(A[1][1], A[1][2], A[1][3], A[2][1], A[2][2], A[2][3],
                                 A[3][1], A[3][2], A[3][3]), <<>>)
        /\ UNCHANGED sat_surfaces

\* a call of functions.inv_3 on a matrix that has an inverse, as
\* get_brightness_coords calls it on the matrix of a basis
CallInv3 ==
    \E A \in Matrices :
        /\ op = "idle"
        /\ det_3(A[1][1], A[1][2], A[1][3], A[2][1], A[2][2], A[2][3],
                 A[3][1], A[3][2], A[3][3]) # 0
        /\ op' = "inv_3"
        /\ args' = A
        /\ out' = Returned(inv_3(A[1][1], A[1][2], A[1][3], A[2][1], A[2][2], A[2][3],
                                 A[3][1], A[3][2], A[3][3]), <<>>)
        /\ UNCHANGED sat_surfaces

NextBrightness ==
    BuildSatellite \/ CallBrightnessFrame \/ CallEarthshinePanels \/ TakeResult

SpecBrightness == Init /\ [][NextBrightness]_vars

NextGround == BuildSatellite \/ CallGroundFrame \/ TakeResult

SpecGround == Init /\ [][NextGround]_vars

NextLegacy == BuildSatellite \/ CallObserverFrame \/ TakeResult

SpecLegacy == Init /\ [][NextLegacy]_vars

NextSatellite == BuildSatellite \/ CallSatelliteFrame \/ TakeResult

SpecSatellite == Init /\ [][NextSatellite]_vars

NextCoords == CallBrightnessCoords \/ TakeResult

SpecCoords == Init /\ [][NextCoords]_vars

NextBRDF == CallBRDF \/ TakeResult

SpecBRDF == Init /\ [][NextBRDF]_vars

NextConversions == CallUnitToSpherical \/ CallSphericalToUnit \/ TakeResult

SpecConversions == Init /\ [][NextConversions]_vars

NextCalculators ==
    BuildSatellite \/ CallBrightnessFrame \/ CallGroundFrame \/ TakeResult

SpecCalculators == Init /\ [][NextCalculators]_vars

NextFunctions == CallDet2 \/ CallDet3 \/ CallInv3 \/ TakeResult

SpecFunctions == Init /\ [][NextFunctions]_vars

NextMagnitude == CallIntensityToAbMag \/ TakeResult

SpecMagnitude == Init /\ [][NextMagnitude]_vars

Next ==
    \/ BuildSatellite
    \/ CallBrightnessFrame
    \/ CallEarthshinePanels
    \/ CallGroundFrame
    \/ CallObserverFrame
    \/ CallSatelliteFrame
    \/ CallBrightnessCoords
    \/ CallBRDF
    \/ CallUnitToSpherical
    \/ CallSphericalToUnit
    \/ CallIntensityToAbMag
    \/ CallDet2
    \/ CallDet3
    \/ CallInv3
    \/ TakeResult

Spec == Init /\ [][Next]_vars


-----------------------------------------------------------------------------
(* Properties                                                              *)

\* C1: a call of the brightness-frame calculate_intensity whose
\* angle_past_terminator is above the horizon angle arccos(R / (R + h))
\* returns exactly 0 at once: no division, no mesh, no call of a normal or
\* of a BRDF is made before the return (the trace of calls is empty)
C1_ShadowReturnsZero ==
    (op = "brightness_frame"
        /\ FGt(args.angle_past_terminator, HorizonAngle(args.sat_height)))
    => out = Returned(0, <<>>)

\* a call in the shadow with a callable normal, surface BRDFs and earthshine
\* asked for
C1_InShadow ==
    /\ op = "brightness_frame"
    /\ FGt(args.angle_past_terminator, HorizonAngle(args.sat_height))
    /\ sat_surfaces = << tracking_array, chassis >>
    /\ args.config = Config(TRUE, TRUE, MaxDensity, Lambertian)
    /\ out = Returned(0, <<>>)

\* C2 (as the code has it): at a phase angle exactly equal to the horizon
\* angle the satellite is not in the shadow (the test is >): with a visible
\* observer, the sun included and a surface that faces both the sun and the
\* observer, the calculation proceeds and the intensity returned is
\* positive, not 0
C2_HorizonIsLit ==
    (op = "brightness_frame"
        /\ args.sat_height > 0
        /\ args.angle_past_terminator = HorizonAngle(args.sat_height)
        /\ FLt(ArcCos(FDiv(args.observer_position[3], EARTH_RADIUS)),
               HorizonAngle(args.sat_height))
        /\ args.config.include_sun
        /\ out.status = "returned"
        /\ \E k \in 1..Len(sat_surfaces) :
              /\ FGt(SurfaceNormalization(
                         SurfaceNormal(sat_surfaces[k].normal, args.angle_past_terminator),
                         SunVector(args.angle_past_terminator)), 0)
              /\ FGt(ObserverNormalization(
                         SurfaceNormal(sat_surfaces[k].normal, args.angle_past_terminator),
                         SatObs(args.observer_position,
                                FAdd(args.sat_height, EARTH_RADIUS),
                                DistSatToObs(args.observer_position,
                                             FAdd(args.sat_height, EARTH_RADIUS)))), 0))
    => (out.trace # <<>> /\ FGt(out.value, 0))

\* a call at the horizon angle of a 550 km orbit, the observer under the
\* satellite and two nadir-facing surfaces
C2_AtHorizon ==
    /\ op = "brightness_frame"
    /\ args.sat_height = 550
    /\ args.angle_past_terminator = HorizonAngle(550)
    /\ args.observer_position = << 0, 0, EARTH_RADIUS >>
    /\ sat_surfaces = << nadir1, nadir2 >>
    /\ args.config.include_sun
    /\ out.status = "returned"
    /\ FGt(out.value, 0)

\* C2 as stated: at a phase angle exactly equal to the horizon angle, with a
\* visible observer and a surface facing the sun and the observer, the
\* intensity returned is exactly 0
C2_HorizonIsZero ==
    (op = "brightness_frame"
        /\ args.sat_height > 0
        /\ args.angle_past_terminator = HorizonAngle(args.sat_height)
        /\ args.observer_position = << 0, 0, EARTH_RADIUS >>
        /\ sat_surfaces \in { << nadir1 >>, << nadir1, nadir2 >> }
        /\ out.status = "returned")
    => out.value = 0

\* C3: the ground-frame calculate_intensity raises its ValueError for every
\* sun_altitude > 0 before anything else is called (the trace of calls is
\* empty), and does not raise it for a sun_altitude <= 0, 0 included
C3_DaylightRaisesFirst ==
    op = "ground_frame"
    => (FGt(args.sun_altitude, 0) <=> out = Raised("ValueError", <<>>))

\* a call in daylight on a grid of directions with surfaces to evaluate
C3_InDaylight ==
    /\ op = "ground_frame"
    /\ args.sun_altitude > 0
    /\ sat_surfaces # <<>>
    /\ Len(args.sat_altitudes.data) > 1
    /\ out = Raised("ValueError", <<>>)

\* C4: for a satellite above the surface, whatever the phase angle, the
\* observer position and the flags, the brightness-frame calculate_intensity
\* returns an intensity that is not NaN and not negative
C4_NonNegative ==
    (op = "brightness_frame" /\ args.sat_height > 0 /\ out.status = "returned")
    => (~IsNaN(out.value) /\ out.value >= 0)

\* C5: a call not in the shadow whose observer is farther than the horizon
\* angle plus one degree from the sub-satellite point returns exactly 0
\* before any division, mesh or BRDF call (the trace is empty); otherwise
\* the calculation proceeds, the division by the observer distance first
C5_BeyondHorizonReturnsZero ==
    (op = "brightness_frame"
        /\ ~FGt(args.angle_past_terminator, HorizonAngle(args.sat_height)))
    => IF FGt(ArcCos(FDiv(args.observer_position[3], EARTH_RADIUS)),
              FAdd(HorizonAngle(args.sat_height), Deg2Rad(S)))
       THEN out = Returned(0, <<>>)
       ELSE out.trace # <<>> /\ Head(out.trace) = Event("div_obs", 0)

\* a lit satellite whose observer is beyond the margin, with surfaces and
\* earthshine asked for
C5_BelowObserverHorizon ==
    /\ op = "brightness_frame"
    /\ args.sat_height = 550
    /\ ~FGt(args.angle_past_terminator, HorizonAngle(args.sat_height))
    /\ FGt(ArcCos(FDiv(args.observer_position[3], EARTH_RADIUS)),
           FAdd(HorizonAngle(args.sat_height), Deg2Rad(S)))
    /\ sat_surfaces # <<>>
    /\ args.config.include_earthshine
    /\ out = Returned(0, <<>>)

\* C6: with the satellite at or below the Earth's surface (sat_height <= 0
\* for calculate_intensity, sat_z <= R for get_earthshine_panels) the call
\* fails with an InvalidGeometry error
C6_BelowSurfaceFails ==
    ((op = "brightness_frame" /\ args.sat_height <= 0)
        \/ (op = "get_earthshine_panels" /\ args.sat_z <= EARTH_RADIUS))
    => (out.status = "raised" /\ out.value = "InvalidGeometry")

\* C7: when the observer position coincides with the satellite position
\* (dist_sat_2_obs = 0) the call fails with an InvalidGeometry error
\* instead of dividing by zero
C7_GuardedDivisions ==
    (op = "brightness_frame"
        /\ DistSatToObs(args.observer_position,
                        FAdd(args.sat_height, EARTH_RADIUS)) = 0
        /\ ~FGt(args.angle_past_terminator, HorizonAngle(args.sat_height)))
    => (out.status = "raised" /\ out.value = "InvalidGeometry")

\* C8: the array the ground-frame calculate_intensity returns has the shape
\* of sat_altitudes (and as many elements), whatever that shape; and for a
\* sun_altitude <= 0 the call does return, with sat_heights a scalar or an
\* array of the shape of sat_altitudes (an earth_brdf given when the
\* earthshine is included)
C8_OutputShape ==
    op = "ground_frame"
    => /\ out.status = "returned"
          => /\ out.value.shape = args.sat_altitudes.shape
             /\ Len(out.value.data) = Size(args.sat_altitudes.shape)
       /\ (/\ ~FGt(args.sun_altitude, 0)
           /\ \/ ~args.sat_heights.ndarray
              \/ args.sat_heights.shape = args.sat_altitudes.shape
           /\ args.config.include_earthshine => args.config.earth_brdf # NoBRDF)
          => out.status = "returned"

\* a 2 x 2 grid with a height for each direction, evaluated at night
C8_GridReturned ==
    /\ op = "ground_frame"
    /\ args.sat_altitudes.shape = << 2, 2 >>
    /\ args.sat_heights.ndarray
    /\ sat_surfaces # <<>>
    /\ out.status = "returned"
    /\ out.value.shape = << 2, 2 >>
    /\ Len(out.value.data) = 4

\* C9: every BRDF of the catalog returns 0 for each element whose incident
\* vector or whose outgoing vector is on the back side of the surface
C9_BackFaceZero ==
    op = "brdf"
    => \A j \in 1..Len(args.beams) :
          (FLt(Dot3(args.beams[j].i, args.normal), 0)
              \/ FLt(Dot3(args.beams[j].o, args.normal), 0))
          => out.value[j] = 0

\* C10: spherical_to_unit(*unit_to_spherical(*v)) is v, up to a tolerance
\* of 0.05 on each component
C10_RoundTrip ==
    (op = "spherical_to_unit" /\ args.of_unit # <<>>)
    => \A k \in 1..3 : Abs(out.value[k] - args.of_unit[k]) <= 50



\* C11: intensity_to_ab_mag is strictly decreasing above the clip floor:
\* of two intensities i1 < i2 whose log_val is above 10e-6, the first has
\* the larger magnitude, with clip true or false
C11_StrictlyDecreasing ==
    op = "intensity_to_ab_mag"
    => \A j, k \in 1..Len(args.intensity) :
          (/\ FLt(args.intensity[j], args.intensity[k])
           /\ FGt(LogVal(args.intensity[j]), 10)
           /\ FGt(LogVal(args.intensity[k]), 10))
          => FGt(out.value[j], out.value[k])

\* two intensities above the floor and 3 % apart, converted in one call
C11_BrighterIsSmaller ==
    /\ op = "intensity_to_ab_mag"
    /\ args.intensity = << 1000, 1030 >>
    /\ out.status = "returned"
    /\ out.value[1] > out.value[2]

C13_SurfacesUnchanged ==
    [][/\ sat_surfaces' # sat_surfaces => (op = "idle" /\ op' = "idle")
       /\ op' = "brightness_frame"
          => out' = calculate_intensity(sat_surfaces', args'.sat_height,
                                        args'.angle_past_terminator,
                                        args'.observer_position,
                                        args'.config.include_sun,
                                        args'.config.include_earthshine,
                                        args'.config.earth_panel_density,
                                        args'.config.earth_brdf)]_vars

\* a call that has resolved the callable normal of the first surface and
\* evaluated the BRDFs of both
C13_CallableResolved ==
    /\ op = "brightness_frame"
    /\ sat_surfaces = << tracking_array, chassis >>
    /\ out.status = "returned"
    /\ \E j \in 1..Len(out.trace) : out.trace[j] = Event("normal", 1)
    /\ sat_surfaces[1].normal.callable


\* C14: for a satellite above the surface (sat_z > R) and a density d >= 2,
\* get_earthshine_panels returns at most d * d panels, each with its seven
\* components x, y, z, nx, ny, nz and area, and each with
\* arccos(nz) < max_angle = arccos(R / sat_z)
C14_PanelsVisible ==
    (op = "get_earthshine_panels" /\ args.sat_z > EARTH_RADIUS)
    => /\ out.status = "returned"
       /\ Len(out.value) <= args.density * args.density
       /\ \A j \in 1..Len(out.value) :
             /\ DOMAIN out.value[j] = {"x", "y", "z", "nx", "ny", "nz", "area"}
             /\ FLt(ArcCos(out.value[j].nz), ArcCos(FDiv(EARTH_RADIUS, args.sat_z)))

\* a mesh of density 3 of which some panels, not all, are beyond the
\* satellite's horizon
C14_SomeClipped ==
    /\ op = "get_earthshine_panels"
    /\ args.sat_z > EARTH_RADIUS
    /\ args.density = 3
    /\ Len(out.value) > 0
    /\ Len(out.value) < 9


\* the determinant of a 3 x 3 integer matrix by the rule of Sarrus
Sarrus(M) ==
    M[1][1] * M[2][2] * M[3][3] + M[1][2] * M[2][3] * M[3][1]
    + M[1][3] * M[2][1] * M[3][2] - M[1][3] * M[2][2] * M[3][1]
    - M[1][2] * M[2][1] * M[3][3] - M[1][1] * M[2][3] * M[3][2]

\* the integer matrix of a fixed-point matrix with whole entries
Whole(A) == [i \in 1..3 |-> [j \in 1..3 |-> A[i][j] \div S]]

\* the two indices of 1..3 other than i, in order
Others(i) == IF i = 1 THEN << 2, 3 >> ELSE IF i = 2 THEN << 1, 3 >> ELSE << 1, 2 >>

\* the cofactor of the entry (i, j) of an integer matrix
Cofactor(M, i, j) ==
    (IF (i + j) % 2 = 0 THEN 1 ELSE -1)
    * (M[Others(i)[1]][Others(j)[1]] * M[Others(i)[2]][Others(j)[2]]
       - M[Others(i)[1]][Others(j)[2]] * M[Others(i)[2]][Others(j)[1]])

\* C15: det_2 and det_3 return the exact determinant; the components of
\* inv_3(A), in row-major order, multiplied by det_3(A) are the entries of
\* the adjugate of A (the transposed cofactors), and A times inv_3(A) is
\* the identity, both to within the rounding of 1 / det
C15_Determinants ==
    /\ op = "det_2"
       => out.value * S = args[1][1] * args[2][2] - args[1][2] * args[2][1]
    /\ op = "det_3" => out.value = S * Sarrus(Whole(args))
    /\ op = "inv_3"
       => \A i \in 1..3, j \in 1..3 :
             /\ Abs(out.value[3 * (i - 1) + j] * Sarrus(Whole(args))
                    - S * Cofactor(Whole(args), j, i)) <= 5
             /\ Abs(Whole(args)[i][1] * out.value[j]
                    + Whole(args)[i][2] * out.value[3 + j]
                    + Whole(args)[i][3] * out.value[6 + j]
                    - (IF i = j THEN S ELSE 0)) <= 5

\* the inverse of a matrix that is not symmetric and whose determinant, 7,
\* has no exact reciprocal
C15_Inverted ==
    /\ op = "inv_3"
    /\ Sarrus(Whole(args)) = 7
    /\ args[1][2] # args[2][1]
    /\ out.status = "returned"
    /\ out.value[1] * 7 # S * Cofactor(Whole(args), 1, 1)

-----------------------------------------------------------------------------
(* The batch of a call of calculators/ground_frame.calculate_intensity      *)

\* sat_heights after lines 124-125
Heights == HeightsArray(args.sat_heights, Size(args.sat_altitudes.shape))

\* the flattened arrays broadcast in get_brightness_coords
Broadcasts ==
    \/ Size(args.sat_altitudes.shape) = Len(Heights.data)
    \/ Size(args.sat_altitudes.shape) = 1
    \/ Len(Heights.data) = 1

\* sat_heights is a scalar or has an element for each direction
Conforms ==
    ~args.sat_heights.ndarray \/ Len(args.sat_heights.data) = Size(args.sat_altitudes.shape)

\* (h, alpha, (x, y, z)) for each element of the broadcast arrays
Elements ==
    GroundElements(args.sat_heights, args.sat_altitudes, args.sat_azimuths,
                   args.sun_altitude, args.sun_azimuth)

\* the indices the loop of line 133 visits
Visited == 1..Min(Len(Elements), Len(Heights.data))

\* the call of line 134 for an element
ScalarCall(e) ==
    calculate_intensity(sat_surfaces, e.sat_height, e.angle_past_terminator,
                        e.observer_position, args.config.include_sun,
                        args.config.include_earthshine, args.config.earth_panel_density,
                        args.config.earth_brdf)

\* the element returns early from the scalar calculator: the satellite is in
\* the Earth's shadow or below the observer's horizon
Degenerate(e) ==
    \/ InShadow(e.angle_past_terminator, HorizonAngle(e.sat_height))
    \/ NotVisible(e.observer_position[3], HorizonAngle(e.sat_height))

\* C16: when the frame transform fails, or the scalar calculator raises for
\* an element the loop visits, the batch call raises an exception and returns
\* no intensity array
C16_NoPartialResult ==
    (op = "ground_frame" /\ ~InDaylight(args.sun_altitude))
    => IF Broadcasts
       THEN LET e == Elements
            IN  \A k \in Visited :
                   ScalarCall(e[k]).status = "raised"
                   => /\ out.status = "raised"
                      /\ out.value \in {"TypeError", "IndexError", "ValueError"}
       ELSE out.status = "raised" /\ out.value = "ValueError"

\* a 2 x 2 grid whose first three directions are in the shadow and return 0,
\* and whose fourth calls the missing earth_brdf
C16_RaisedAtFourth ==
    /\ op = "ground_frame"
    /\ Len(args.sat_altitudes.data) = 4
    /\ Conforms
    /\ \A k \in 1..3 : ScalarCall(Elements[k]) = Returned(0, <<>>)
    /\ ScalarCall(Elements[4]).status = "raised"
    /\ Called(out.trace) = 4
    /\ out.status = "raised"
    /\ out.value = "TypeError"

\* the sequence without its element d
Drop(s, d) == [j \in 1..(Len(s) - 1) |-> IF j < d THEN s[j] ELSE s[j + 1]]

\* the flattened array without its element d
Without(a, d) == [a EXCEPT !.shape = << Len(a.data) - 1 >>, !.data = Drop(a.data, d)]

\* the batch call repeated on the directions other than d
CallWithout(d) ==
    ground_calculate_intensity(sat_surfaces,
                               IF args.sat_heights.ndarray
                               THEN Without(args.sat_heights, d)
                               ELSE args.sat_heights,
                               Without(args.sat_altitudes, d),
                               Without(args.sat_azimuths, d),
                               args.sun_altitude, args.sun_azimuth,
                               args.config.include_sun, args.config.include_earthshine,
                               args.config.earth_panel_density, args.config.earth_brdf)

\* C17: a batch at night, with a height for each direction and an earth_brdf
\* when the earthshine is included, returns normally although some of its
\* elements are in the shadow or below the horizon; the output of such an
\* element is 0, and the other outputs are those of the batch without it
C17_DegenerateIsZero ==
    (/\ op = "ground_frame"
     /\ ~InDaylight(args.sun_altitude)
     /\ Conforms
     /\ args.config.include_earthshine => args.config.earth_brdf # NoBRDF)
    => /\ out.status = "returned"
       /\ LET e == Elements
          IN  \A d \in 1..Len(e) :
                 Degenerate(e[d])
                 => /\ out.value.data[d] = 0
                    /\ args.sat_altitudes.ndarray
                       => LET without == CallWithout(d)
                          IN  /\ without.status = "returned"
                              /\ without.value.data = Drop(out.value.data, d)

\* a 2 x 2 grid with a direction in the shadow between directions that are
\* lit: the output is 0 there and positive before and after
C17_ShadowAmongLit ==
    /\ op = "ground_frame"
    /\ Conforms
    /\ Len(args.sat_altitudes.data) = 4
    /\ out.status = "returned"
    /\ ~Degenerate(Elements[1]) /\ Degenerate(Elements[2]) /\ ~Degenerate(Elements[3])
    /\ out.value.data[1] > 0 /\ out.value.data[2] = 0 /\ out.value.data[3] > 0
    /\ CallWithout(2).value.data = << out.value.data[1], out.value.data[3], out.value.data[4] >>

\* the indices of the calls of the scalar calculator, in the order made
CallOrder(trace) ==
    LET calls == SelectSeq(trace, LAMBDA e : e.ev = "calculate_intensity")
    IN  [j \in 1..Len(calls) |-> calls[j].k]

\* C18: for every batch at night whose arrays broadcast and whose scalar
\* calls all return, the scalar calculator is called once for each element of
\* the flattened sat_altitudes, in index order, and the output holds the value
\* of each call
C18_OncePerElement ==
    (/\ op = "ground_frame"
     /\ ~InDaylight(args.sun_altitude)
     /\ Broadcasts
     /\ \A k \in 1..Len(Elements) : ScalarCall(Elements[k]).status = "returned")
    => /\ out.status = "returned"
       /\ CallOrder(out.trace) = [i \in 1..Size(args.sat_altitudes.shape) |-> i]
       /\ \A i \in 1..Size(args.sat_altitudes.shape) :
             out.value.data[i] = ScalarCall(Elements[i]).value

\* the calls made while element i of the batch is processed: the trace
\* between the call of the scalar calculator for i and the next such call
Segment(trace, i) ==
    LET start == CHOOSE j \in 1..Len(trace) : trace[j] = Event("calculate_intensity", i)
        later == { j \in (start + 1)..Len(trace) : trace[j].ev = "calculate_intensity" }
        stop  == IF later = {} THEN Len(trace)
                 ELSE (CHOOSE j \in later : \A l \in later : j <= l) - 1
    IN  SubSeq(trace, start + 1, stop)

\* the number of calls of get_earthshine_panels in a trace
Meshes(trace) ==
    Cardinality({ j \in 1..Len(trace) : trace[j].ev = "get_earthshine_panels" })

\* C20: while an element of a batch is processed, get_earthshine_panels is
\* called once if include_earthshine is set and the element passes the shadow
\* and the horizon check, and not at all otherwise; the calls made for the
\* element are those of the scalar calculator on that element alone, and a
\* batch that returns with a height for each direction has processed every
\* element
C20_MeshPerElement ==
    op = "ground_frame"
    => /\ LET e == Elements
          IN  \A i \in 1..Called(out.trace) :
                 /\ Meshes(Segment(out.trace, i))
                    = IF args.config.include_earthshine /\ ~Degenerate(e[i])
                      THEN 1 ELSE 0
                 /\ Segment(out.trace, i) = ScalarCall(e[i]).trace
       /\ (out.status = "returned" /\ Conforms)
          => Called(out.trace) = Size(args.sat_altitudes.shape)

\* a 2 x 2 grid with earthshine, one direction in the shadow: three meshes
\* for the four elements
C20_ThreeMeshesForFour ==
    /\ op = "ground_frame"
    /\ args.config.include_earthshine
    /\ out.status = "returned"
    /\ Called(out.trace) = 4
    /\ Degenerate(Elements[2])
    /\ Meshes(Segment(out.trace, 1)) = 1
    /\ Meshes(Segment(out.trace, 2)) = 0
    /\ Meshes(out.trace) = 3

\* the number of calls of get_intensity_satellite_frame in a trace
SatelliteFrameCalls(trace) ==
    Cardinality({ j \in 1..Len(trace) : trace[j].ev = "get_intensity_satellite_frame" })

\* the depths at which get_intensity_observer_frame is entered
Entered(trace) ==
    { trace[j].k : j \in { l \in 1..Len(trace) : trace[l].ev = "get_intensity_observer_frame" } }

\* C19: calculator.get_intensity_observer_frame, called at night on a
\* non-empty array of directions with a height for each, calls
\* get_intensity_satellite_frame once per element and returns an array of the
\* shape of sat_altitudes, without entering itself again
C19_LegacyReturnsArray ==
    (/\ op = "observer_frame"
     /\ args.sun_altitude <= 0
     /\ Size(args.sat_altitudes.shape) > 0
     /\ Conforms)
    => /\ out.status = "returned"
       /\ out.value.shape = args.sat_altitudes.shape
       /\ SatelliteFrameCalls(out.trace) = Size(args.sat_altitudes.shape)
       /\ Entered(out.trace) = {0}

-----------------------------------------------------------------------------
(* The calls made in one scalar calculation                                 *)

\* the positions of the calls of a kind in a trace
Positions(trace, ev) == { j \in 1..Len(trace) : trace[j].ev = ev }

\* the scalar call passes the shadow and the visibility check
PassesChecks ==
    /\ ~InShadow(args.angle_past_terminator, HorizonAngle(args.sat_height))
    /\ ~NotVisible(args.observer_position[3], HorizonAngle(args.sat_height))

\* C21: a scalar calculation that passes the two checks calls earth_brdf
\* once when include_earthshine is set, before every call made for a surface
\* and whatever the number of surfaces, and never when it is not set: a
\* call without earthshine returns although earth_brdf is None
C21_EarthBrdfOnce ==
    (op = "brightness_frame" /\ PassesChecks)
    => /\ Cardinality(Positions(out.trace, "earth_brdf"))
          = IF args.config.include_earthshine THEN 1 ELSE 0
       /\ \A j \in Positions(out.trace, "earth_brdf") :
             \A l \in Positions(out.trace, "normal") \cup Positions(out.trace, "brdf_sun")
                      \cup Positions(out.trace, "brdf_earth") : j < l
       /\ ~args.config.include_earthshine => out.status = "returned"

\* a calculation with earthshine for a satellite of several surfaces: one
\* call of earth_brdf, a call of the surface BRDF for each surface
C21_OnceForTwoSurfaces ==
    /\ op = "brightness_frame"
    /\ PassesChecks
    /\ args.config.include_earthshine
    /\ Len(sat_surfaces) >= 2
    /\ out.status = "returned"
    /\ Cardinality(Positions(out.trace, "earth_brdf")) = 1
    /\ Cardinality(Positions(out.trace, "brdf_earth")) = Len(sat_surfaces)

\* the surfaces with every normal a fixed vector: the value a callable
\* normal returns for the angle of the calculation
Resolved(surfaces, angle_past_terminator) ==
    [k \in 1..Len(surfaces) |->
        [surfaces[k] EXCEPT
            !.normal = Fixed(SurfaceNormal(surfaces[k].normal, angle_past_terminator))]]

\* C22: in a scalar calculation that reaches the loop, a callable normal is
\* called once for its surface and a fixed normal never, and the intensity
\* is the one computed with each callable normal replaced, in the direct and
\* in the earthshine term, by its value at the angle of the calculation
C22_NormalResolvedOnce ==
    (op = "brightness_frame" /\ PassesChecks /\ out.status = "returned")
    => /\ \A k \in 1..Len(sat_surfaces) :
             Cardinality({ j \in Positions(out.trace, "normal") : out.trace[j].k = k })
             = IF sat_surfaces[k].normal.callable THEN 1 ELSE 0
       /\ out.value
          = calculate_intensity(Resolved(sat_surfaces, args.angle_past_terminator),
                                args.sat_height, args.angle_past_terminator,
                                args.observer_position, args.config.include_sun,
                                args.config.include_earthshine,
                                args.config.earth_panel_density,
                                args.config.earth_brdf).value

\* a satellite with a sun-tracking array, past the terminator, with both
\* terms: one call of the normal, and a positive intensity
C22_TrackingArray ==
    /\ op = "brightness_frame"
    /\ PassesChecks
    /\ sat_surfaces = << tracking_array, chassis >>
    /\ args.angle_past_terminator = 200
    /\ args.config.include_sun /\ args.config.include_earthshine
    /\ out.status = "returned"
    /\ Cardinality(Positions(out.trace, "normal")) = 1
    /\ out.value > 0

-----------------------------------------------------------------------------
(* The terms of one surface                                                 *)

\* the unit vector (sat_obs_x, sat_obs_y, sat_obs_z) of the scalar call
SatObsOf ==
    SatObs(args.observer_position, FAdd(args.sat_height, EARTH_RADIUS),
           DistSatToObs(args.observer_position, FAdd(args.sat_height, EARTH_RADIUS)))

\* the normal of surface k in the scalar call
NormalOf(k) == SurfaceNormal(sat_surfaces[k].normal, args.angle_past_terminator)

\* a vector with a component that is not a number
Undefined(v) == IsNaN(v[1]) \/ IsNaN(v[2]) \/ IsNaN(v[3])

\* the surface with normal n faces away from the direction v
FacesAway(n, v) == ~IsNaN(Dot3(n, v)) /\ Dot3(n, v) <= 0

\* the surface faces away from the sun or from the observer
TurnedAway(k) ==
    \/ FacesAway(NormalOf(k), SunVector(args.angle_past_terminator))
    \/ FacesAway(NormalOf(k), SatObsOf)

MeshOfCall ==
    EarthshineMesh(FAdd(args.sat_height, EARTH_RADIUS), args.angle_past_terminator,
                   args.config.earth_panel_density, args.config.earth_brdf)

\* the unit vector from the satellite to the panel m
ToPanel(m) == << FNeg(m.panel_sat[1]), FNeg(m.panel_sat[2]), FNeg(m.panel_sat[3]) >>

\* the scalar call computes the earthshine term
WithEarthshine ==
    /\ op = "brightness_frame"
    /\ PassesChecks
    /\ args.config.include_earthshine
    /\ out.status = "returned"
    /\ ~Undefined(SatObsOf)

\* C24: in the earthshine term a panel on the back side of a surface
\* (normal . (panel - satellite) <= 0) adds 0 for that surface, and a panel on
\* the front side with positive BRDF values, illumination and area adds a
\* positive amount
C24_PanelWeight ==
    WithEarthshine
    => \A k \in 1..Len(sat_surfaces) :
          \A j \in 1..Len(MeshOfCall) :
             LET m == MeshOfCall[j]
                 term == PanelTerm(m, sat_surfaces[k], NormalOf(k), SatObsOf)
             IN  /\ FacesAway(NormalOf(k), ToPanel(m)) => term = 0
                 /\ (/\ Dot3(NormalOf(k), ToPanel(m)) > 0
                     /\ m.brdf > 0 /\ m.normalization > 0 /\ m.area > 0
                     /\ BRDF(sat_surfaces[k].brdf, ToPanel(m), NormalOf(k), SatObsOf) > 0)
                    => term > 0

\* the secondary term of surface k in the scalar call
EarthTermOf(k) ==
    EarthContribution(sat_surfaces[k], NormalOf(k), SatObsOf, TRUE, MeshOfCall)

\* C25: a surface the observer is behind (normal . satellite-to-observer
\* direction <= 0) adds no secondary shine in the scalar calculator
C25_ObserverWeighted ==
    WithEarthshine
    => \A k \in 1..Len(sat_surfaces) :
          Dot3(NormalOf(k), SatObsOf) <= 0 => EarthTermOf(k) = 0

\* a direct call of the frame transform
CoordsCall == op = "brightness_coords" /\ out # <<>>

\* C26: a call of get_brightness_coords with the sun above the horizontal
\* plane (sun_alt > 0) raises and returns no coordinates
C26_RejectsSunAbove ==
    (CoordsCall /\ args.sun_alt > 0) => out.status = "raised"

\* the axes << X, Y, Z >> the frame transform hands to inv_3 in the call
BasisOfCall ==
    LET sat == altaz_to_unit(args.sat_alt, args.sat_az)
        sun == altaz_to_unit(args.sun_alt, args.sun_az)
        Z   == ZAxis(Phi(sat, args.sat_height), ArcTan2(sat[2], sat[1]))
        Y   == YAxis(Z, sun)
    IN  << XAxis(Y, Z), Y, Z >>

\* the determinant of the matrix of columns X, Y, Z
DetOfBasis(B) ==
    det_3(B[1][1], B[2][1], B[3][1], B[1][2], B[2][2], B[3][2], B[1][3], B[2][3], B[3][3])

\* the inputs the frame transform accepts
Accepted ==
    /\ CoordsCall
    /\ args.sat_alt \in 0..90000
    /\ args.sat_height > 0
    /\ args.sun_alt \in -90000..0

\* C27: for every accepted input the basis handed to inv_3 has finite
\* components and a non-zero determinant, and the coordinates and the angle
\* returned are finite
C27_BasisNonDegenerate ==
    Accepted
    => LET B == BasisOfCall
       IN  /\ \A a \in 1..3 : \A c \in 1..3 : ~IsNaN(B[a][c])
           /\ ~IsNaN(DetOfBasis(B)) /\ DetOfBasis(B) # 0
           /\ out.status = "returned"
           /\ \A i \in 1..4 : ~IsNaN(out.value[i])

Reverse(s) == [j \in 1..Len(s) |-> s[Len(s) + 1 - j]]

\* the array with its elements in the opposite order
Reversed(a) == IF a.ndarray THEN [a EXCEPT !.data = Reverse(a.data)] ELSE a

\* the 1-d array of element i of the array
Alone(a, i) == IF a.ndarray THEN [a EXCEPT !.shape = << 1 >>, !.data = << a.data[i] >>] ELSE a

\* the batch call on the arrays f(sat_heights), f(sat_altitudes), f(sat_azimuths)
CallOn(heights, altitudes, azimuths) ==
    ground_calculate_intensity(sat_surfaces, heights, altitudes, azimuths,
                               args.sun_altitude, args.sun_azimuth,
                               args.config.include_sun, args.config.include_earthshine,
                               args.config.earth_panel_density, args.config.earth_brdf)

\* the batch call on element i alone
CallAlone(i) ==
    CallOn(Alone(args.sat_heights, i), Alone(args.sat_altitudes, i), Alone(args.sat_azimuths, i))

\* the batch call on the elements in the opposite order
CallReversed ==
    CallOn(Reversed(args.sat_heights), Reversed(args.sat_altitudes), Reversed(args.sat_azimuths))

\* C28: in a batch that returns, with sat_heights a scalar or an array of one
\* height for each direction, the output of element i is the output of the
\* batch made of element i alone, and the batch of the elements in the
\* opposite order returns the outputs in the opposite order
C28_ElementsIndependent ==
    (/\ op = "ground_frame"
     /\ out.status = "returned"
     /\ args.sat_altitudes.ndarray
     /\ Conforms)
    => /\ \A i \in 1..Len(out.value.data) :
             LET alone == CallAlone(i)
             IN  alone.status = "returned" /\ alone.value.data = << out.value.data[i] >>
       /\ LET reversed == CallReversed
          IN  reversed.status = "returned" /\ reversed.value.data = Reverse(out.value.data)

\* two lit directions of different intensities: the batch in the opposite
\* order returns the two intensities exchanged
C28_TwoLitDirections ==
    /\ op = "ground_frame"
    /\ out.status = "returned"
    /\ Conforms
    /\ Len(args.sat_altitudes.data) = 2
    /\ out.value.data[1] > 0 /\ out.value.data[2] > 0
    /\ out.value.data[1] # out.value.data[2]
    /\ CallReversed.value.data = << out.value.data[2], out.value.data[1] >>
    /\ CallAlone(2).value.data = << out.value.data[2] >>

\* a call of the former scalar calculator for the direct illumination only
DirectOnly == op = "satellite_frame" /\ ~args.config.include_earthshine

\* the maintained scalar calculator on the arguments of the call
Maintained ==
    calculate_intensity(sat_surfaces, args.sat_height, args.angle_past_terminator,
                        args.observer_position, args.config.include_sun,
                        args.config.include_earthshine, args.config.earth_panel_density,
                        args.config.earth_brdf)

\* C29: with include_earthshine false the former scalar calculator returns
\* early exactly when the maintained one does, and returns the same intensity
C29_SameDirectIntensity ==
    DirectOnly
    => /\ out.status = Maintained.status
       /\ out.value = Maintained.value
       /\ (out.trace = <<>>) = (Maintained.trace = <<>>)

\* a lit satellite above the horizon, of a positive direct intensity
C29_DirectPositive ==
    /\ DirectOnly
    /\ args.config.include_sun
    /\ out.status = "returned"
    /\ out.trace # <<>>
    /\ ~IsNaN(out.value) /\ out.value > 0
    /\ out.value = Maintained.value

\* C30: in a scalar call that passes the two early-return tests (with an
\* earth_brdf given when the earthshine is included), include_sun false means no
\* surface BRDF is called with the sun direction, include_earthshine false
\* means no mesh is generated and no surface BRDF is called with a panel
\* direction, and with both flags false or with no surface the call returns 0
C30_FlagsSelectTerms ==
    (/\ op = "brightness_frame"
     /\ PassesChecks
     /\ args.config.include_earthshine => args.config.earth_brdf # NoBRDF)
    => /\ out.status = "returned"
       /\ ~args.config.include_sun => Positions(out.trace, "brdf_sun") = {}
       /\ ~args.config.include_earthshine
          => /\ Positions(out.trace, "get_earthshine_panels") = {}
             /\ Positions(out.trace, "brdf_earth") = {}
       /\ ((~args.config.include_sun /\ ~args.config.include_earthshine)
           \/ sat_surfaces = <<>>)
          => out.value = 0
=============================================================================
